---- MODULE Spec2Model ----
(***************************************************************************)
(* Torna MCP server: the multi-token server (main.py) and the single-token *)
(* server (refactored_server.py on top of refactored_client.py).           *)
(*                                                                         *)
(* Text.  A Python str is a TLA+ string, character for character.  Three   *)
(* characters that a TLA+ string cannot hold are written as an ASCII       *)
(* character that occurs nowhere else in the texts of the model:           *)
(*     "$"  stands for a non-ASCII letter (U+00E9) in caller/remote text,  *)
(*     "^"  stands for the check mark U+2705 of the success line,          *)
(*     "@"  stands for the cross mark U+274C of the failure line.          *)
(* The Chinese phrases of refactored_client.py / refactored_server.py are  *)
(* written as "[zh: <translation>]".                                       *)
(*                                                                         *)
(* Values.  A JSON / Python value is a tagged record: JNull, JBool, JInt,  *)
(* JStr, JList, JObj (an ordered sequence of <<key, value>> members).      *)
(***************************************************************************)
EXTENDS Integers, Sequences, FiniteSets, TLC

VARIABLES variant, environ, proc, API_BASE_URL, TORNA_TOKENS, TORNA_TOKEN, calls,
          heap, locals, torna_client, transports

vars == <<variant, environ, proc, API_BASE_URL, TORNA_TOKENS, TORNA_TOKEN, calls,
          heap, locals, torna_client, transports>>

\* the objects of a program that uses refactored_client.py directly: the dicts
\* it holds by reference, its local names, its TornaClient and the httpx
\* clients that TornaClient has opened
library == <<heap, locals, torna_client, transports>>

config == <<API_BASE_URL, TORNA_TOKENS, TORNA_TOKEN>>

---------------------------------------------------------------------------
(* Bounds of the model *)

\* the calls in progress at one time in SpecConc
MaxCalls == 2

\* the dict objects a program that uses RequestForm allocates in SpecForm
MaxObjects == 3

\* the httpx clients one TornaClient opens in SpecClient
MaxTransports == 2

---------------------------------------------------------------------------
(* Python / JSON values *)

JNull == [t |-> "null"]
JBool(b) == [t |-> "bool", b |-> b]
JInt(n) == [t |-> "int", n |-> n]
JStr(s) == [t |-> "str", s |-> s]
JList(items) == [t |-> "list", items |-> items]
JObj(members) == [t |-> "obj", members |-> members]

\* a key that a mapping does not hold
Absent == [t |-> "absent"]

IsStr(v) == v.t = "str"
IsObj(v) == v.t = "obj"
IsList(v) == v.t = "list"

\* Python ==: a str never equals a number; bool is a subclass of int
PyEq(a, b) ==
    IF a.t \in {"int", "bool"} /\ b.t \in {"int", "bool"}
    THEN (IF a.t = "int" THEN a.n ELSE IF a.b THEN 1 ELSE 0)
         = (IF b.t = "int" THEN b.n ELSE IF b.b THEN 1 ELSE 0)
    ELSE a = b

\* Python truthiness: None, False, 0, "", [] and {} are false
Truthy(v) ==
    CASE v.t = "null" -> FALSE
      [] v.t = "absent" -> FALSE
      [] v.t = "bool" -> v.b
      [] v.t = "int" -> v.n # 0
      [] v.t = "str" -> Len(v.s) > 0
      [] v.t = "list" -> Len(v.items) > 0
      [] v.t = "obj" -> Len(v.members) > 0

HasKey(o, k) == \E i \in 1..Len(o.members) : o.members[i][1] = k

\* dict[k] of a key the dict holds
Lookup(o, k) ==
    o.members[CHOOSE i \in 1..Len(o.members) : o.members[i][1] = k][2]

\* dict.get(k, default)
Get(o, k, default) == IF HasKey(o, k) THEN Lookup(o, k) ELSE default

\* dict.copy(): a new dict with the same members
DictCopy(o) == JObj(o.members)

---------------------------------------------------------------------------
(* Text *)

\* the character at position i
Char(s, i) == SubSeq(s, i, i)

\* sep.join(parts)
RECURSIVE Join(_, _)
Join(parts, sep) ==
    IF parts = <<>> THEN ""
    ELSE IF Len(parts) = 1 THEN parts[1]
    ELSE parts[1] \o sep \o Join(Tail(parts), sep)

\* s.startswith(p)
StartsWith(s, p) == Len(s) >= Len(p) /\ SubSeq(s, 1, Len(p)) = p

\* s.endswith(p)
EndsWith(s, p) == Len(s) >= Len(p) /\ SubSeq(s, Len(s) - Len(p) + 1, Len(s)) = p

\* p in s
Contains(s, p) ==
    \E i \in 0..(Len(s) - Len(p)) : SubSeq(s, i + 1, i + Len(p)) = p

\* s with every character of from replaced by the character of to at the
\* same position
RECURSIVE MapChars(_, _, _)
MapChars(s, from, to) ==
    IF s = "" THEN ""
    ELSE IF Len(s) = 1
    THEN (IF \E i \in 1..Len(from) : Char(from, i) = s
          THEN Char(to, CHOOSE i \in 1..Len(from) : Char(from, i) = s)
          ELSE s)
    ELSE MapChars(SubSeq(s, 1, Len(s) \div 2), from, to)
         \o MapChars(SubSeq(s, Len(s) \div 2 + 1, Len(s)), from, to)

\* s.lower(), s.upper()
Lower(s) == MapChars(s, "ABCDEFGHIJKLMNOPQRSTUVWXYZ", "abcdefghijklmnopqrstuvwxyz")
Upper(s) == MapChars(s, "abcdefghijklmnopqrstuvwxyz", "ABCDEFGHIJKLMNOPQRSTUVWXYZ")

\* s.strip(): leading and trailing blanks removed
RECURSIVE LStrip(_)
LStrip(s) == IF s # "" /\ Char(s, 1) \in {" ", "\n", "\t"}
             THEN LStrip(SubSeq(s, 2, Len(s))) ELSE s
RECURSIVE RStrip(_)
RStrip(s) == IF s # "" /\ Char(s, Len(s)) \in {" ", "\n", "\t"}
             THEN RStrip(SubSeq(s, 1, Len(s) - 1)) ELSE s
Strip(s) == RStrip(LStrip(s))

\* str(n)
RECURSIVE NatStr(_)
NatStr(n) == IF n < 10 THEN Char("0123456789", n + 1)
             ELSE NatStr(n \div 10) \o Char("0123456789", (n % 10) + 1)

IntStr(n) == IF n < 0 THEN "-" \o NatStr(0 - n) ELSE NatStr(n)

---------------------------------------------------------------------------
(* json.dumps and urllib.parse.quote *)

\* what json.dumps writes for the characters of a string
RECURSIVE JsonEscapeAll(_, _)
JsonEscapeAll(s, ensure_ascii) ==
    IF s = "" THEN ""
    ELSE IF Len(s) = 1
    THEN CASE s = "\"" -> "\\" \o "\""
           [] s = "\\" -> "\\" \o "\\"
           [] s = "\n" -> "\\n"
           [] s = "\t" -> "\\t"
           [] s = "$" -> IF ensure_ascii THEN "\\u00e9" ELSE s
           [] OTHER -> s
    ELSE JsonEscapeAll(SubSeq(s, 1, Len(s) \div 2), ensure_ascii)
         \o JsonEscapeAll(SubSeq(s, Len(s) \div 2 + 1, Len(s)), ensure_ascii)

JsonString(s, ensure_ascii) == "\"" \o JsonEscapeAll(s, ensure_ascii) \o "\""

\* indent * level
RECURSIVE Indentation(_)
Indentation(level) == IF level <= 0 THEN "" ELSE "  " \o Indentation(level - 1)

\* json.dumps(v, ensure_ascii=...); indent is FALSE (compact, ", " and ": ")
\* or TRUE (indent=2: one item per line)
RECURSIVE JsonText(_, _, _, _)
RECURSIVE JsonItems(_, _, _, _, _)
JsonItems(items, isObj, ensure_ascii, indent, level) ==
    LET one(i) == (IF isObj
                   THEN JsonString(items[i][1], ensure_ascii) \o ": "
                        \o JsonText(items[i][2], ensure_ascii, indent, level)
                   ELSE JsonText(items[i], ensure_ascii, indent, level))
        sep == IF indent THEN ",\n" \o Indentation(level) ELSE ", "
    IN  Join([i \in 1..Len(items) |-> one(i)], sep)

JsonText(v, ensure_ascii, indent, level) ==
    CASE v.t = "null" -> "null"
      [] v.t = "bool" -> IF v.b THEN "true" ELSE "false"
      [] v.t = "int" -> IntStr(v.n)
      [] v.t = "str" -> JsonString(v.s, ensure_ascii)
      [] v.t \in {"list", "obj"} ->
            LET items == IF v.t = "obj" THEN v.members ELSE v.items
                open == IF v.t = "obj" THEN "{" ELSE "["
                close == IF v.t = "obj" THEN "}" ELSE "]"
            IN  IF items = <<>> THEN open \o close
                ELSE IF indent
                THEN open \o "\n" \o Indentation(level + 1)
                     \o JsonItems(items, v.t = "obj", ensure_ascii, indent, level + 1)
                     \o "\n" \o Indentation(level) \o close
                ELSE open
                     \o JsonItems(items, v.t = "obj", ensure_ascii, indent, level)
                     \o close

\* json.dumps(v) and json.dumps(v, ensure_ascii=False)
JsonDumps(v, ensure_ascii) == JsonText(v, ensure_ascii, FALSE, 0)

\* json.dumps(v, indent=2, ensure_ascii=False)
JsonDumpsIndent(v) == JsonText(v, FALSE, TRUE, 0)

\* urllib.parse.quote of one character: the unreserved characters and the
\* characters of safe stay, every other byte becomes %XX (UTF-8)
QuoteChar(c, safe) ==
    IF Contains("ABCDEFGHIJKLMNOPQRSTUVWXYZabcdefghijklmnopqrstuvwxyz0123456789_.-~", c)
       \/ Contains(safe, c)
    THEN c
    ELSE CASE c = " " -> "%20" [] c = "!" -> "%21" [] c = "\"" -> "%22"
           [] c = "#" -> "%23" [] c = "%" -> "%25"
           [] c = "&" -> "%26" [] c = "'" -> "%27" [] c = "(" -> "%28"
           [] c = ")" -> "%29" [] c = "*" -> "%2A" [] c = "+" -> "%2B"
           [] c = "," -> "%2C" [] c = "/" -> "%2F" [] c = ":" -> "%3A"
           [] c = ";" -> "%3B" [] c = "<" -> "%3C" [] c = "=" -> "%3D"
           [] c = ">" -> "%3E" [] c = "?" -> "%3F" [] c = "[" -> "%5B"
           [] c = "\\" -> "%5C" [] c = "]" -> "%5D" [] c = "{" -> "%7B"
           [] c = "|" -> "%7C" [] c = "}" -> "%7D" [] c = "\n" -> "%0A"
           [] c = "\t" -> "%09" [] c = "$" -> "%C3%A9"

RECURSIVE Quote(_, _)
Quote(s, safe) ==
    IF s = "" THEN ""
    ELSE IF Len(s) = 1 THEN QuoteChar(s, safe)
    ELSE Quote(SubSeq(s, 1, Len(s) \div 2), safe)
         \o Quote(SubSeq(s, Len(s) \div 2 + 1, Len(s)), safe)

---------------------------------------------------------------------------
(* Exceptions and results of calls that may raise *)

\* an exception object: its class, str(e), the status of e.response (0: the
\* exception has no response attribute) and, for TornaAPIError, code/message
Exc(cls, msg) ==
    [cls |-> cls, msg |-> msg, status |-> 0, body |-> "", code |-> "", message |-> ""]

\* httpx.HTTPStatusError raised by response.raise_for_status()
HTTPStatusError(status, body) ==
    [cls |-> "HTTPStatusError",
     msg |-> "HTTP error '" \o IntStr(status) \o "' for url",
     status |-> status, body |-> body, code |-> "", message |-> ""]

\* refactored_client.TornaAPIError(code, message)
TornaAPIError(code, message) ==
    [cls |-> "TornaAPIError",
     msg |-> "Torna API Error " \o code \o ": " \o message,
     status |-> 0, body |-> "", code |-> code, message |-> message]

Ret(v) == [ok |-> TRUE, v |-> v]
Raise(e) == [ok |-> FALSE, exc |-> e]

\* isinstance(e, httpx.TimeoutException): the timeout classes of httpx
IsTimeoutException(e) ==
    e.cls \in {"ConnectTimeout", "ReadTimeout", "WriteTimeout", "PoolTimeout"}

\* isinstance(e, ValueError): json.JSONDecodeError derives from ValueError
IsValueError(e) == e.cls \in {"ValueError", "JSONDecodeError"}

\* type(v).__name__
TypeName(v) ==
    CASE v.t = "null" -> "NoneType" [] v.t = "bool" -> "bool" [] v.t = "int" -> "int"
      [] v.t = "str" -> "str" [] v.t = "list" -> "list" [] v.t = "obj" -> "dict"

\* the AttributeError of v.get(...) on a value that is no mapping
NoGet(v) ==
    Exc("AttributeError", "'" \o TypeName(v) \o "' object has no attribute 'get'")

---------------------------------------------------------------------------
(* The HTTP exchange: what one client.post(...) can end in *)

\* a reply with a status line: the body is the text of a JSON value or not JSON
Response(status, isJson, v, text) ==
    [k |-> "response", status |-> status, json |-> isJson, v |-> v, text |-> text]
\* no reply within the timeout
TimedOut == [k |-> "timeout", status |-> 0, json |-> FALSE, v |-> JNull, text |-> ""]
\* no connection (refused, unresolvable, unusable URL)
ConnectFailed == [k |-> "connect", status |-> 0, json |-> FALSE, v |-> JNull, text |-> ""]

\* response.text

\* what client.post(...) followed by response.raise_for_status() ends in
PostAndRaiseForStatus(reply) ==
    CASE reply.k = "timeout" -> Raise(Exc("ReadTimeout", "The read operation timed out"))
      [] reply.k = "connect" ->
            Raise(Exc("ConnectError", "All connection attempts failed"))
      [] reply.k = "response" ->
            IF reply.status \div 100 = 2 THEN Ret(reply)
            ELSE Raise(HTTPStatusError(reply.status,
                       IF reply.json THEN JsonDumps(reply.v, FALSE) ELSE reply.text))

\* response.json() / json.loads(response.text)
JsonLoads(reply) ==
    IF reply.json THEN Ret(reply.v)
    ELSE Raise(Exc("JSONDecodeError", "Expecting value: line 1 column 1 (char 0)"))

---------------------------------------------------------------------------
(* refactored_client.py *)

SUCCESS_CODE == JStr("0")

\* BaseResponse.from_dict(data): data.get raises AttributeError unless data
\* is a mapping
from_dict(data) ==
    IF IsObj(data)
    THEN Ret([code |-> Get(data, "code", JNull),
              msg |-> Get(data, "msg", JNull),
              data |-> Get(data, "data", JNull)])
    ELSE Raise(NoGet(data))

\* BaseResponse.is_success
is_success(response) == PyEq(SUCCESS_CODE, response.code)

\* BaseResponse.to_dict
to_dict(response) ==
    JObj(<< <<"code", response.code>>, <<"msg", response.msg>>,
            <<"data", response.data>> >>)

\* RequestForm.__init__ and RequestForm.get_form: each takes a copy
RequestForm(form_data) == [form |-> DictCopy(form_data)]
get_form(request_form) == DictCopy(request_form.form)

\* a request object: its class and its instance attributes (__dict__)
NewRequest(cls, token, attrs) ==
    [cls |-> cls, d |-> JObj(<< <<"token", token>> >> \o attrs)]

DocListRequest(token) == NewRequest("DocListRequest", token, <<>>)
DocGetRequest(token, doc_id) ==
    NewRequest("DocGetRequest", token, << <<"doc_id", doc_id>> >>)
DocPushRequest(token) ==
    NewRequest("DocPushRequest", token,
               << <<"apis", JNull>>, <<"debug_envs", JNull>> >>)
ModuleGetRequest(token) == NewRequest("ModuleGetRequest", token, <<>>)
DocDetailsRequest(token, doc_ids) ==
    NewRequest("DocDetailsRequest", token, << <<"doc_ids", doc_ids>> >>)
DocCategoryCreateRequest(token, name) ==
    NewRequest("DocCategoryCreateRequest", token, << <<"name", name>> >>)
DocCategoryListRequest(token) == NewRequest("DocCategoryListRequest", token, <<>>)
DocCategoryNameUpdateRequest(token, category_id, name) ==
    NewRequest("DocCategoryNameUpdateRequest", token,
               << <<"category_id", category_id>>, <<"name", name>> >>)
EnumPushRequest(token, enum_name, description, items) ==
    NewRequest("EnumPushRequest", token,
               << <<"enum_name", enum_name>>, <<"description", description>>,
                  <<"items", IF Truthy(items) THEN items ELSE JList(<<>>)>> >>)
EnumBatchPushRequest(token, enums) ==
    NewRequest("EnumBatchPushRequest", token, << <<"enums", enums>> >>)
ModuleDebugEnvSetRequest(token, name, url) ==
    NewRequest("ModuleDebugEnvSetRequest", token,
               << <<"name", name>>, <<"url", url>> >>)
ModuleDebugEnvDeleteRequest(token, name) ==
    NewRequest("ModuleDebugEnvDeleteRequest", token, << <<"name", name>> >>)

\* self.<attr> = value on an existing instance attribute
SetAttr(request, attr, value) ==
    [request EXCEPT !.d = JObj([i \in 1..Len(request.d.members) |->
        IF request.d.members[i][1] = attr THEN <<attr, value>>
        ELSE request.d.members[i]])]

\* a setter that stores nothing
set_debug_envs_lost(request, debug_envs) == request

set_apis(request, apis) == SetAttr(request, "apis", apis)
set_debug_envs(request, debug_envs) == SetAttr(request, "debug_envs", debug_envs)

Attr(request, attr) == Lookup(request.d, attr)

\* the value each class's name() method returns
InterfaceName(cls) ==
    CASE cls = "DocListRequest" -> "doc.list"
      [] cls = "DocGetRequest" -> "doc.detail"
      [] cls = "DocPushRequest" -> "doc.push"
      [] cls = "ModuleGetRequest" -> "module.get"
      [] cls = "DocDetailsRequest" -> "doc.details"
      [] cls = "DocCategoryCreateRequest" -> "doc.category.create"
      [] cls = "DocCategoryListRequest" -> "doc.category.list"
      [] cls = "DocCategoryNameUpdateRequest" -> "doc.category.name.update"
      [] cls = "EnumPushRequest" -> "enum.push"
      [] cls = "EnumBatchPushRequest" -> "enum.batch.push"
      [] cls = "ModuleDebugEnvSetRequest" -> "module.debug.env.set"
      [] cls = "ModuleDebugEnvDeleteRequest" -> "module.debug.env.delete"

\* self.name(): attribute lookup finds an instance attribute before the
\* method of the class, and calling a str raises TypeError
CallName(request) ==
    IF HasKey(request.d, "name")
    THEN Raise(Exc("TypeError", "'str' object is not callable"))
    ELSE Ret(InterfaceName(request.cls))

\* self.version()
CallVersion(request) == "1.0"

\* the dict that build_json_data() of each class hands to json.dumps, and the
\* ensure_ascii it passes (the default, True, where it passes none)
JsonData(request) ==
    LET cls == request.cls
        a(k) == Attr(request, k)
        dumps(members, ensure_ascii) ==
            [v |-> JObj(members), ensure_ascii |-> ensure_ascii]
    IN  CASE cls = "DocGetRequest" -> dumps(<< <<"id", a("doc_id")>> >>, TRUE)
          [] cls = "DocPushRequest" ->
               dumps((IF Truthy(a("apis")) THEN << <<"apis", a("apis")>> >> ELSE <<>>)
                     \o (IF Truthy(a("debug_envs"))
                         THEN << <<"debugEnvs", a("debug_envs")>> >> ELSE <<>>),
                     FALSE)
          [] cls = "DocDetailsRequest" -> dumps(<< <<"ids", a("doc_ids")>> >>, TRUE)
          [] cls = "DocCategoryCreateRequest" ->
               dumps(<< <<"name", a("name")>> >>, TRUE)
          [] cls = "DocCategoryNameUpdateRequest" ->
               dumps(<< <<"id", a("category_id")>>, <<"name", a("name")>> >>, TRUE)
          [] cls = "EnumPushRequest" ->
               dumps(<< <<"name", a("enum_name")>>,
                        <<"description", a("description")>>,
                        <<"items", a("items")>> >>, FALSE)
          [] cls = "EnumBatchPushRequest" ->
               dumps(<< <<"enums", a("enums")>> >>, FALSE)
          [] cls = "ModuleDebugEnvSetRequest" ->
               dumps(<< <<"name", a("name")>>, <<"url", a("url")>> >>, TRUE)
          [] cls = "ModuleDebugEnvDeleteRequest" ->
               dumps(<< <<"name", a("name")>> >>, TRUE)
          [] OTHER -> dumps(<<>>, TRUE)

\* build_json_data(): BaseRequest returns the text "{}", each overriding class
\* the json.dumps of its dict
build_json_data(request) ==
    IF request.cls \in {"DocListRequest", "ModuleGetRequest", "DocCategoryListRequest"}
    THEN "{}"
    ELSE JsonDumps(JsonData(request).v, JsonData(request).ensure_ascii)

\* urllib.parse.quote_plus in the place of quote: a blank becomes a plus sign
url_encode_plus(data) == MapChars(Quote(data, " "), " ", "+")

\* BaseRequest._url_encode
url_encode(data) == Quote(data, "")

\* BaseRequest.create_request_form; now is the clock reading, formatted
create_request_form(request, now) ==
    LET data == build_json_data(request)
        name == CallName(request)
    IN  IF ~name.ok THEN name
        ELSE Ret(RequestForm(JObj(<<
                 <<"name", JStr(name.v)>>,
                 <<"data", JStr(url_encode(data))>>,
                 <<"version", JStr(CallVersion(request))>>,
                 <<"timestamp", JStr(now)>>,
                 <<"access_token", Attr(request, "token")>> >>)))

\* BaseRequest.parse_response
parse_response(request, reply) ==
    LET loaded == JsonLoads(reply)
    IN  IF ~loaded.ok
        THEN Raise(TornaAPIError("PARSE_ERROR",
                   "[zh: response parsing failed]: " \o loaded.exc.msg))
        ELSE from_dict(loaded.v)

\* the try/except of TornaClient.execute around post, raise_for_status and
\* parse_response
execute_exchange(request, reply) ==
    LET posted == PostAndRaiseForStatus(reply)
        parsed == IF posted.ok THEN parse_response(request, reply) ELSE posted
    IN  IF parsed.ok THEN parsed
        ELSE LET e == parsed.exc
             IN  IF e.cls = "HTTPStatusError"
                 THEN Raise(TornaAPIError("HTTP_ERROR",
                        "[zh: HTTP request failed]: " \o IntStr(e.status)
                        \o " - " \o e.body))
                 ELSE IF IsTimeoutException(e)
                 THEN Raise(TornaAPIError("TIMEOUT_ERROR",
                        "[zh: request timed out]: " \o e.msg))
                 ELSE Raise(TornaAPIError("UNKNOWN_ERROR",
                        "[zh: unknown error]: " \o e.msg))

---------------------------------------------------------------------------
(* str() and repr() of a value, as an f-string writes it *)

\* the characters of repr(s), between the quotes
RECURSIVE ReprEscapeAll(_)
ReprEscapeAll(s) ==
    IF s = "" THEN ""
    ELSE IF Len(s) = 1
    THEN CASE s = "\\" -> "\\" \o "\\"
           [] s = "\n" -> "\\n"
           [] s = "\t" -> "\\t"
           [] OTHER -> s
    ELSE ReprEscapeAll(SubSeq(s, 1, Len(s) \div 2))
         \o ReprEscapeAll(SubSeq(s, Len(s) \div 2 + 1, Len(s)))

\* repr(v)
RECURSIVE PyRepr(_)
PyRepr(v) ==
    CASE v.t = "null" -> "None"
      [] v.t = "bool" -> IF v.b THEN "True" ELSE "False"
      [] v.t = "int" -> IntStr(v.n)
      [] v.t = "str" ->
            IF Contains(v.s, "'") /\ ~Contains(v.s, "\"")
            THEN "\"" \o ReprEscapeAll(v.s) \o "\""
            ELSE "'" \o ReprEscapeAll(v.s) \o "'"
      [] v.t = "list" ->
            "[" \o Join([i \in 1..Len(v.items) |-> PyRepr(v.items[i])], ", ") \o "]"
      [] v.t = "obj" ->
            "{" \o Join([i \in 1..Len(v.members) |->
                            PyRepr(JStr(v.members[i][1])) \o ": "
                            \o PyRepr(v.members[i][2])], ", ") \o "}"

\* str(v), the text "{v}" puts into an f-string
PyStr(v) == IF v.t = "str" THEN v.s ELSE PyRepr(v)

\* the values a for loop over v yields: the items of a list, the characters
\* of a str, the keys of a dict
IterItems(v) ==
    CASE v.t = "list" -> v.items
      [] v.t = "str" -> [i \in 1..Len(v.s) |-> JStr(Char(v.s, i))]
      [] v.t = "obj" -> [i \in 1..Len(v.members) |-> JStr(v.members[i][1])]

\* a slice that keeps everything
SliceAll(v, n) == v

\* v[:n] of a list or a str
Slice(v, n) ==
    IF v.t = "list" THEN JList(SubSeq(v.items, 1, IF Len(v.items) < n THEN Len(v.items) ELSE n))
    ELSE JStr(SubSeq(v.s, 1, IF Len(v.s) < n THEN Len(v.s) ELSE n))

\* len(v)
PyLen(v) ==
    CASE v.t = "list" -> Len(v.items)
      [] v.t = "str" -> Len(v.s)
      [] v.t = "obj" -> Len(v.members)

---------------------------------------------------------------------------
(* main.py: constants and helpers *)

CHARACTER_LIMIT == 25000

\* the success and failure marks of the Markdown report
CheckMark == "^"
CrossMark == "@"

\* _handle_api_error without its branch for status 429
handle_api_error_without_429(e) ==
    IF e.cls = "HTTPStatusError"
    THEN (IF e.status = 404
          THEN "Error: Resource not found. Please check the ID is correct."
          ELSE IF e.status = 403
          THEN "Error: Permission denied. You don't have access to this resource."
          ELSE "Error: API request failed with status " \o IntStr(e.status))
    ELSE IF IsTimeoutException(e)
    THEN "Error: Request timed out. Please try again."
    ELSE IF IsValueError(e) /\ Contains(e.msg, "TORNA")
    THEN "Configuration error: " \o e.msg
    ELSE "Error: Unexpected error occurred: " \o e.cls

\* main.py _handle_api_error
handle_api_error(e) ==
    IF e.cls = "HTTPStatusError"
    THEN (IF e.status = 404
          THEN "Error: Resource not found. Please check the ID is correct."
          ELSE IF e.status = 403
          THEN "Error: Permission denied. You don't have access to this resource."
          ELSE IF e.status = 429
          THEN "Error: Rate limit exceeded. Please wait before making more requests."
          ELSE "Error: API request failed with status " \o IntStr(e.status))
    ELSE IF IsTimeoutException(e)
    THEN "Error: Request timed out. Please try again."
    ELSE IF IsValueError(e) /\ Contains(e.msg, "TORNA")
    THEN "Configuration error: " \o e.msg
    ELSE "Error: Unexpected error occurred: " \o e.cls

\* the Request Envelope main.py _make_api_request posts
make_request_data(interface_name, version, data, access_token) ==
    JObj(<< <<"name", JStr(interface_name)>>,
            <<"version", version>>,
            <<"data", JStr(Quote(JsonDumps(data, FALSE), "/"))>>,
            <<"access_token", access_token>> >>)

\* main.py _make_api_request after the POST: raise_for_status, response.json()
make_api_request_result(reply) ==
    LET posted == PostAndRaiseForStatus(reply)
    IN  IF posted.ok THEN JsonLoads(reply) ELSE posted

\* an optional member of a payload: present only when the value is truthy
Opt(key, value) == IF Truthy(value) THEN << <<key, value>> >> ELSE <<>>

\* value or default
Or(value, default) == IF Truthy(value) THEN value ELSE default

\* main.py _format_doc_push_data
format_doc_push_data(input_data) ==
    LET doc_data == JObj(
            << <<"name", input_data.name>>,
               <<"description", Or(input_data.description, JStr(""))>>,
               <<"url", input_data.url>>,
               <<"httpMethod", input_data.http_method>>,
               <<"contentType", input_data.content_type>>,
               <<"isFolder", input_data.is_folder>>,
               <<"isShow", input_data.is_show>> >>
            \o Opt("parentId", input_data.parent_id)
            \o Opt("requestParams", input_data.request_params)
            \o Opt("headerParams", input_data.header_params)
            \o Opt("responseParams", input_data.response_params)
            \o Opt("errorCodeParams", input_data.error_codes)
            \o (IF Truthy(input_data.debug_env_name) /\ Truthy(input_data.debug_env_url)
                THEN << <<"debugEnv", JObj(<< <<"name", input_data.debug_env_name>>,
                                              <<"url", input_data.debug_env_url>> >>)>> >>
                ELSE <<>>))
    IN  JObj(<< <<"apis", JList(<<doc_data>>)>> >>)

---------------------------------------------------------------------------
(* main.py: the tools *)

MainTools ==
    {"torna_push_document", "torna_create_category", "torna_update_category_name",
     "torna_list_documents", "torna_get_document_detail",
     "torna_get_document_details_batch", "torna_create_dictionary",
     "torna_update_dictionary", "torna_list_dictionaries",
     "torna_get_dictionary_detail", "torna_delete_dictionary",
     "torna_create_module", "torna_update_module", "torna_list_modules",
     "torna_get_module_detail", "torna_delete_module"}

\* annotations that declare every tool read-only
AnnotationsReadOnly(tool) ==
    [readOnlyHint |-> TRUE, destructiveHint |-> FALSE]

\* the annotations each tool of main.py is registered with (@mcp.tool)
Annotations(tool) ==
    [readOnlyHint |->
        tool \in {"torna_list_documents", "torna_get_document_detail",
                  "torna_get_document_details_batch", "torna_list_dictionaries",
                  "torna_get_dictionary_detail", "torna_list_modules",
                  "torna_get_module_detail"},
     destructiveHint |-> tool \in {"torna_delete_dictionary", "torna_delete_module"}]

\* the interface name each tool of main.py passes to _make_api_request and
\* to _format_response
MainInterface(tool) ==
    CASE tool = "torna_push_document" -> "doc.push"
      [] tool = "torna_create_category" -> "doc.category.create"
      [] tool = "torna_update_category_name" -> "doc.category.name.update"
      [] tool = "torna_list_documents" -> "doc.list"
      [] tool = "torna_get_document_detail" -> "doc.detail"
      [] tool = "torna_get_document_details_batch" -> "doc.details"
      [] tool = "torna_create_dictionary" -> "dict.create"
      [] tool = "torna_update_dictionary" -> "dict.update"
      [] tool = "torna_list_dictionaries" -> "dict.list"
      [] tool = "torna_get_dictionary_detail" -> "dict.detail"
      [] tool = "torna_delete_dictionary" -> "dict.delete"
      [] tool = "torna_create_module" -> "module.create"
      [] tool = "torna_update_module" -> "module.update"
      [] tool = "torna_list_modules" -> "module.list"
      [] tool = "torna_get_module_detail" -> "module.detail"
      [] tool = "torna_delete_module" -> "module.delete"

\* the version each tool passes
MainVersion(tool, params) ==
    IF tool = "torna_push_document" THEN params.version ELSE JStr("1.0")

\* the data each tool of main.py builds from its params
MainPayload(tool, params) ==
    CASE tool = "torna_push_document" -> format_doc_push_data(params)
      [] tool = "torna_create_category" ->
            JObj(<< <<"name", params.name>>, <<"isFolder", JBool(TRUE)>>,
                    <<"isShow", JBool(TRUE)>> >>
                 \o Opt("parentId", params.parent_id)
                 \o Opt("description", params.description))
      [] tool = "torna_update_category_name" ->
            JObj(<< <<"name", params.name>> >>)
      [] tool \in {"torna_list_documents", "torna_list_dictionaries"} ->
            JObj(<< <<"limit", Or(params.limit, JInt(20))>>,
                    <<"offset", Or(params.offset, JInt(0))>> >>)
      [] tool = "torna_get_document_detail" ->
            JObj(<< <<"id", params.doc_id>> >>)
      [] tool = "torna_get_document_details_batch" ->
            JObj(<< <<"ids", params.doc_ids>> >>)
      [] tool = "torna_create_dictionary" ->
            JObj(<< <<"name", params.name>> >> \o Opt("description", params.description))
      [] tool = "torna_update_dictionary" ->
            JObj(<< <<"id", params.dict_id>> >>
                 \o Opt("name", params.name) \o Opt("description", params.description))
      [] tool \in {"torna_get_dictionary_detail", "torna_delete_dictionary"} ->
            JObj(<< <<"id", params.dict_id>> >>)
      [] tool = "torna_create_module" ->
            JObj(<< <<"name", params.name>>, <<"projectId", params.project_id>> >>
                 \o Opt("description", params.description))
      [] tool = "torna_update_module" ->
            JObj(<< <<"id", params.module_id>> >>
                 \o Opt("name", params.name) \o Opt("description", params.description))
      [] tool = "torna_list_modules" ->
            JObj(<< <<"limit", Or(params.limit, JInt(20))>>,
                    <<"offset", Or(params.offset, JInt(0))>> >>
                 \o Opt("projectId", params.project_id))
      [] tool \in {"torna_get_module_detail", "torna_delete_module"} ->
            JObj(<< <<"id", params.module_id>> >>)

---------------------------------------------------------------------------
(* main.py _format_response *)

\* d.get(key, default) written into a line
Field(d, key, default) == PyStr(Get(d, key, JStr(default)))

\* the first value of items that is no mapping (item.get raises on it)
HasNonDict(items) == \E i \in 1..Len(items) : ~IsObj(items[i])
FirstNonDict(items) ==
    items[CHOOSE i \in 1..Len(items) :
            ~IsObj(items[i]) /\ \A j \in 1..(i - 1) : IsObj(items[j])]

\* the lines of one document of doc.list / doc.details
DocLines(heading, doc) ==
    <<heading,
      "- **ID**: " \o Field(doc, "id", "N/A"),
      "- **URL**: " \o Field(doc, "url", "N/A"),
      "- **Method**: " \o Field(doc, "httpMethod", "N/A")>>
    \o (IF Truthy(Get(doc, "description", JNull))
        THEN <<"- **Description**: " \o PyStr(Lookup(doc, "description"))>> ELSE <<>>)
    \o <<"">>

RECURSIVE ListDocLines(_)
ListDocLines(docs) ==
    IF docs = <<>> THEN <<>>
    ELSE DocLines("### " \o Field(Head(docs), "name", "Untitled"), Head(docs))
         \o ListDocLines(Tail(docs))

RECURSIVE BatchDocLines(_, _)
BatchDocLines(docs, i) ==
    IF i > Len(docs) THEN <<>>
    ELSE DocLines("### " \o IntStr(i) \o ". " \o Field(docs[i], "name", "Untitled"),
                  docs[i])
         \o BatchDocLines(docs, i + 1)

\* the lines of the parameters of doc.detail
RECURSIVE ParamLines(_)
ParamLines(ps) ==
    IF ps = <<>> THEN <<>>
    ELSE LET param == Head(ps)
         IN  <<"- **" \o Field(param, "name", "N/A") \o "** ("
               \o Field(param, "type", "N/A") \o ")">>
             \o (IF Truthy(Get(param, "description", JNull))
                 THEN <<"  - " \o PyStr(Lookup(param, "description"))>> ELSE <<>>)
             \o (IF Truthy(Get(param, "example", JNull))
                 THEN <<"  - Example: " \o PyStr(Lookup(param, "example"))>> ELSE <<>>)
             \o ParamLines(Tail(ps))

\* one parameter section of doc.detail: the lines, or the exception of
\* iterating / param.get
ParamSection(doc, key, title) ==
    LET ps == Get(doc, key, JList(<<>>))
    IN  IF ~Truthy(ps) THEN Ret(<<>>)
        ELSE IF ps.t \in {"int", "bool"}
        THEN Raise(Exc("TypeError", "'" \o TypeName(ps) \o "' object is not iterable"))
        ELSE IF HasNonDict(IterItems(ps)) THEN Raise(NoGet(FirstNonDict(IterItems(ps))))
        ELSE Ret(<<"", title>> \o ParamLines(IterItems(ps)))

\* the success branch: the lines appended for interface_name, or the
\* exception the branch raises on the shape of data
SuccessLines(result, interface_name) ==
    CASE interface_name = "doc.push" ->
            LET d == Get(result, "data", JNull)
            IN  IF ~Truthy(d) THEN Ret(<<"Documents have been pushed successfully.">>)
                ELSE IF ~IsObj(d) THEN Raise(NoGet(d))
                ELSE Ret(<<"## Push Result",
                           "- **Document Name**: " \o Field(d, "name", "N/A"),
                           "- **Document ID**: " \o Field(d, "id", "N/A"),
                           "- **Status**: " \o Field(d, "status", "N/A")>>)
      [] interface_name = "doc.category.create" ->
            LET d == Get(result, "data", JNull)
            IN  IF ~Truthy(d) THEN Ret(<<"Category has been created successfully.">>)
                ELSE IF ~IsObj(d) THEN Raise(NoGet(d))
                ELSE Ret(<<"## Category Created",
                           "- **Category Name**: " \o Field(d, "name", "N/A"),
                           "- **Category ID**: " \o Field(d, "id", "N/A")>>)
      [] interface_name = "doc.category.name.update" ->
            Ret(<<"Category name has been updated successfully.">>)
      [] interface_name = "doc.list" ->
            LET data == Get(result, "data", JObj(<<>>))
            IN  IF ~IsObj(data) THEN Raise(NoGet(data))
                ELSE LET docs == Get(data, "list", JList(<<>>))
                         top == <<"## Document List (Total: "
                                  \o PyStr(Get(data, "total", JInt(0))) \o ")", "">>
                     IN  IF ~Truthy(docs) THEN Ret(top \o <<"No documents found.">>)
                         ELSE IF docs.t \in {"int", "bool"}
                         THEN Raise(Exc("TypeError", "'" \o TypeName(docs)
                                        \o "' object is not subscriptable"))
                         ELSE IF docs.t = "obj"
                         THEN Raise(Exc("TypeError", "unhashable type: 'slice'"))
                         ELSE LET shown == IterItems(Slice(docs, 10))
                              IN  IF HasNonDict(shown) THEN Raise(NoGet(FirstNonDict(shown)))
                                  ELSE Ret(top \o ListDocLines(shown)
                                           \o (IF PyLen(docs) > 10
                                               THEN <<"... and " \o IntStr(PyLen(docs) - 10)
                                                      \o " more documents">>
                                               ELSE <<>>))
      [] interface_name = "doc.detail" ->
            LET doc == Get(result, "data", JObj(<<>>))
            IN  IF ~Truthy(doc) THEN Ret(<<"Document not found.">>)
                ELSE IF ~IsObj(doc) THEN Raise(NoGet(doc))
                ELSE LET top == <<"## " \o Field(doc, "name", "Document Detail"),
                                  "- **ID**: " \o Field(doc, "id", "N/A"),
                                  "- **URL**: " \o Field(doc, "url", "N/A"),
                                  "- **Method**: " \o Field(doc, "httpMethod", "N/A"),
                                  "- **Content Type**: " \o Field(doc, "contentType", "N/A")>>
                                 \o (IF Truthy(Get(doc, "description", JNull))
                                     THEN <<"- **Description**: "
                                            \o PyStr(Lookup(doc, "description"))>>
                                     ELSE <<>>)
                         req == ParamSection(doc, "requestParams", "### Request Parameters")
                         res == ParamSection(doc, "responseParams", "### Response Parameters")
                     IN  IF ~req.ok THEN req
                         ELSE IF ~res.ok THEN res
                         ELSE Ret(top \o req.v \o res.v)
      [] interface_name = "doc.details" ->
            LET docs == Get(result, "data", JList(<<>>))
            IN  IF docs.t \in {"null", "int", "bool"}
                THEN Raise(Exc("TypeError", "object of type '" \o TypeName(docs)
                               \o "' has no len()"))
                ELSE IF HasNonDict(IterItems(docs))
                THEN Raise(NoGet(FirstNonDict(IterItems(docs))))
                ELSE Ret(<<"## Batch Document Details (" \o IntStr(PyLen(docs))
                           \o " documents)", "">>
                         \o BatchDocLines(IterItems(docs), 1))
      [] OTHER -> Ret(<<>>)

\* the character-limit check at the end of _format_response, reached when
\* the lines were built without an exception
Truncate(text) ==
    IF ~text.ok THEN text
    ELSE IF Len(text.v) > CHARACTER_LIMIT
    THEN Ret(SubSeq(text.v, 1, CHARACTER_LIMIT - 100)
             \o "\n\n... (response truncated due to length limit)")
    ELSE text

\* the failure branch with the message read from a key the envelope lacks
FailureLinesWrongKey(result) ==
    << CrossMark \o " **Operation failed**", "",
       "- **Error Code**: " \o PyStr(Get(result, "code", JStr("Unknown"))),
       "- **Error Message**: " \o PyStr(Get(result, "message", JStr("Unknown error"))) >>

\* the else branch of _format_response: the failure report
FailureLines(result) ==
    << CrossMark \o " **Operation failed**", "",
       "- **Error Code**: " \o PyStr(Get(result, "code", JStr("Unknown"))),
       "- **Error Message**: " \o PyStr(Get(result, "msg", JStr("Unknown error"))) >>

\* main.py _format_response, the Markdown branch up to the character-limit
\* check: response_text in full, or the exception the branch raises
response_text(result, interface_name) ==
    IF ~IsObj(result) THEN Raise(NoGet(result))
    ELSE LET head == <<"# " \o interface_name \o " Result", "">>
             code == Get(result, "code", JNull)
         IN  IF PyEq(code, JInt(0)) \/ PyEq(code, JStr("0"))
             THEN LET body == SuccessLines(result, interface_name)
                  IN  IF ~body.ok THEN body
                      ELSE Ret(Join(
                               head \o <<CheckMark \o " **Operation completed successfully**",
                                         "">> \o body.v, "\n"))
             ELSE Ret(Join(head \o FailureLines(result), "\n"))

\* main.py _format_response: the returned text, or the exception it raises
format_response(result, response_format, interface_name) ==
    IF response_format = "json" THEN Ret(JsonDumpsIndent(result))
    ELSE Truncate(response_text(result, interface_name))

\* a tool that answers from an earlier successful call of the same tool with
\* the same params instead of formatting its own reply
MainToolReturnCached(tool, params, reply) ==
    LET earlier == {d \in DOMAIN calls :
                        /\ calls[d].pc = "done"
                        /\ calls[d].tool = tool
                        /\ calls[d].params = params
                        /\ calls[d].reply.k = "response"
                        /\ calls[d].reply.status = 200}
        result == make_api_request_result(reply)
        text == IF result.ok
                THEN format_response(result.v, params.response_format, MainInterface(tool))
                ELSE result
    IN  IF earlier # {} THEN Ret(calls[CHOOSE d \in earlier : TRUE].result)
        ELSE IF text.ok THEN text ELSE Ret(handle_api_error(text.exc))

\* a tool without its except clause: the exception leaves the tool function
MainToolReturnUncaught(tool, params, reply) ==
    LET result == make_api_request_result(reply)
    IN  IF result.ok
        THEN format_response(result.v, params.response_format, MainInterface(tool))
        ELSE result

\* the body of every tool of main.py after the POST: try: ... except
\* Exception as e: return _handle_api_error(e)
MainToolReturn(tool, params, reply) ==
    LET result == make_api_request_result(reply)
        text == IF result.ok
                THEN format_response(result.v, params.response_format, MainInterface(tool))
                ELSE result
    IN  IF text.ok THEN text ELSE Ret(handle_api_error(text.exc))

---------------------------------------------------------------------------
(* refactored_server.py *)

DEFAULT_API_URL == "http://localhost:7700"

RefactoredTools ==
    {"torna_list_documents", "torna_get_document_detail", "torna_push_document",
     "torna_get_module_info", "torna_get_batch_documents", "torna_create_category",
     "torna_list_categories", "torna_update_category_name", "torna_push_enum",
     "torna_batch_push_enums", "torna_set_debug_env", "torna_delete_debug_env"}

\* the operation title each refactored tool passes to _format_response
Operation(tool) ==
    CASE tool = "torna_list_documents" -> "Document List"
      [] tool = "torna_get_document_detail" -> "Document Detail"
      [] tool = "torna_push_document" -> "Document Push"
      [] tool = "torna_get_module_info" -> "Module Info"
      [] tool = "torna_get_batch_documents" -> "Batch Document Details"
      [] tool = "torna_create_category" -> "Create Category"
      [] tool = "torna_list_categories" -> "List Categories"
      [] tool = "torna_update_category_name" -> "Update Category Name"
      [] tool = "torna_push_enum" -> "Push Enum"
      [] tool = "torna_batch_push_enums" -> "Batch Push Enums"
      [] tool = "torna_set_debug_env" -> "Set Debug Environment"
      [] tool = "torna_delete_debug_env" -> "Delete Debug Environment"

\* _format_doc_push_data_refactored
format_doc_push_data_refactored(input_data) ==
    JList(<< JObj(
        << <<"name", input_data.name>>,
           <<"description", Or(input_data.description, JStr(""))>>,
           <<"url", input_data.url>>,
           <<"httpMethod", JStr(Upper(input_data.http_method.s))>>,
           <<"contentType", input_data.content_type>>,
           <<"isFolder", JStr(IF Truthy(input_data.is_folder) THEN "1" ELSE "0")>>,
           <<"parentId", Or(input_data.parent_id, JStr(""))>>,
           <<"isShow", JStr(IF Truthy(input_data.is_show) THEN "1" ELSE "0")>> >>
        \o Opt("headerParams", input_data.header_params)
        \o Opt("requestParams", input_data.request_params)
        \o Opt("pathParams", input_data.path_params)
        \o Opt("queryParams", input_data.query_params)
        \o Opt("responseParams", input_data.response_params)
        \o Opt("errorCodeParams", input_data.error_codes)) >>)

\* the request each refactored tool builds inside its with block
RefactoredRequest(tool, params, token) ==
    CASE tool = "torna_list_documents" ->
            IF Truthy(params.doc_ids) THEN DocDetailsRequest(token, params.doc_ids)
            ELSE DocListRequest(token)
      [] tool = "torna_get_document_detail" -> DocGetRequest(token, params.doc_id)
      [] tool = "torna_push_document" ->
            LET r == set_apis(DocPushRequest(token), format_doc_push_data_refactored(params))
            IN  IF Truthy(params.debug_env_name) /\ Truthy(params.debug_env_url)
                THEN set_debug_envs(r, JList(<< JObj(<< <<"name", params.debug_env_name>>,
                                                        <<"url", params.debug_env_url>> >>) >>))
                ELSE r
      [] tool = "torna_get_module_info" -> ModuleGetRequest(token)
      [] tool = "torna_get_batch_documents" -> DocDetailsRequest(token, params.doc_ids)
      [] tool = "torna_create_category" -> DocCategoryCreateRequest(token, params.name)
      [] tool = "torna_list_categories" -> DocCategoryListRequest(token)
      [] tool = "torna_update_category_name" ->
            DocCategoryNameUpdateRequest(token, params.category_id, params.name)
      [] tool = "torna_push_enum" ->
            EnumPushRequest(token, params.name, params.description, params.items)
      [] tool = "torna_batch_push_enums" -> EnumBatchPushRequest(token, params.enums)
      [] tool = "torna_set_debug_env" ->
            ModuleDebugEnvSetRequest(token, params.name, params.url)
      [] tool = "torna_delete_debug_env" ->
            ModuleDebugEnvDeleteRequest(token, params.name)

\* _format_as_markdown
RECURSIVE format_as_markdown(_, _)
RECURSIVE ItemsMarkdown(_)
RECURSIVE MembersMarkdown(_, _)
RECURSIVE ItemFields(_)
ItemFields(members) ==
    IF members = <<>> THEN ""
    ELSE (IF Head(members)[1] # "name"
          THEN "- **" \o Head(members)[1] \o "**: " \o PyStr(Head(members)[2]) \o "\n"
          ELSE "")
         \o ItemFields(Tail(members))

ItemsMarkdown(items) ==
    IF items = <<>> THEN ""
    ELSE (IF IsObj(Head(items))
          THEN "### " \o Field(Head(items), "name", "Unknown") \o "\n\n"
               \o ItemFields(Head(items).members) \o "\n"
          ELSE "- " \o PyStr(Head(items)) \o "\n")
         \o ItemsMarkdown(Tail(items))

MembersMarkdown(members, operation) ==
    IF members = <<>> THEN ""
    ELSE (IF Head(members)[2].t \in {"list", "obj"}
          THEN "### " \o Head(members)[1] \o "\n\n"
               \o format_as_markdown(Head(members)[2],
                                     operation \o " - " \o Head(members)[1])
          ELSE "- **" \o Head(members)[1] \o "**: " \o PyStr(Head(members)[2]) \o "\n")
         \o MembersMarkdown(Tail(members), operation)

format_as_markdown(data, operation) ==
    CASE data.t = "list" ->
            IF data.items = <<>> THEN "## " \o operation \o "\n\n[zh: no data]"
            ELSE "## " \o operation \o "\n\n" \o ItemsMarkdown(data.items)
      [] data.t = "obj" ->
            "## " \o operation \o "\n\n" \o MembersMarkdown(data.members, operation)
      [] OTHER -> "## " \o operation \o "\n\n" \o PyStr(data)

\* refactored_server.py _format_response
format_response_refactored(result, format_type, operation) ==
    LET data == IF IsObj(result) /\ HasKey(result, "data")
                THEN Lookup(result, "data") ELSE result
    IN  IF format_type = "json"
        THEN JsonDumpsIndent(JObj(<< <<"operation", JStr(operation)>>,
                                     <<"success", JBool(TRUE)>>,
                                     <<"result", data>> >>))
        ELSE format_as_markdown(data, operation)

\* _handle_api_error_refactored
handle_api_error_refactored(e) ==
    IF e.cls = "TornaAPIError"
    THEN "Torna API Error " \o e.code \o ": " \o e.message
    ELSE IF e.cls = "HTTPStatusError"
    THEN (IF e.status = 404
          THEN "Error: Resource not found. Please check the ID is correct."
          ELSE IF e.status = 403
          THEN "Error: Permission denied. You don't have access to this resource."
          ELSE IF e.status = 429
          THEN "Error: Rate limit exceeded. Please wait before making more requests."
          ELSE "Error: API request failed with status " \o IntStr(e.status))
    ELSE IF Contains(Lower(e.msg), "timeout")
    THEN "Error: Request timed out. Please try again."
    ELSE IF Contains(e.msg, "TORNA_TOKEN")
    THEN "Configuration error: " \o e.msg
    ELSE "Error: Unexpected error occurred: " \o e.cls \o ": " \o e.msg

\* the ValueError of _validate_environment
MissingToken ==
    Exc("ValueError", "TORNA_TOKEN environment variable is required. "
                      \o "Please set it to your Torna module access token.")

\* the part of a refactored tool after client.execute returned or raised:
\* the is_success check, _format_response, and the except clause
RefactoredToolReturn(tool, params, executed) ==
    IF ~executed.ok THEN Ret(handle_api_error_refactored(executed.exc))
    ELSE IF ~is_success(executed.v)
    THEN Ret("Error: " \o PyStr(executed.v.msg) \o " (code: "
             \o PyStr(executed.v.code) \o ")")
    ELSE Ret(format_response_refactored(to_dict(executed.v), params.response_format,
                                        Operation(tool)))

---------------------------------------------------------------------------
(* Input models (pydantic) *)

\* one field of an input model: Field(...) with its annotation
FieldSpec(name, kind, required, nullable, default, min, max) ==
    [name |-> name, kind |-> kind, required |-> required, nullable |-> nullable,
     default |-> default, min |-> min, max |-> max]

\* no upper limit
NoMax == -1

ReqStr(name, min, max) == FieldSpec(name, "str", TRUE, FALSE, JNull, min, max)
OptStr(name, min, max) == FieldSpec(name, "str", FALSE, TRUE, JNull, min, max)
DefStr(name, default) == FieldSpec(name, "str", FALSE, FALSE, JStr(default), 0, NoMax)
DefBool(name, default) == FieldSpec(name, "bool", FALSE, FALSE, JBool(default), 0, NoMax)
OptInt(name, default, min, max) == FieldSpec(name, "int", FALSE, TRUE, JInt(default), min, max)
ReqList(name, min, max) == FieldSpec(name, "list", TRUE, FALSE, JNull, min, max)
OptList(name, default) == FieldSpec(name, "list", FALSE, TRUE, default, 0, NoMax)
FormatField == FieldSpec("response_format", "format", FALSE, FALSE, JStr("markdown"), 0, NoMax)
TokenField == ReqStr("access_token", 0, NoMax)

HttpMethod == {"GET", "POST", "PUT", "DELETE", "PATCH"}
ResponseFormat == {"markdown", "json"}

\* the input model of each tool of main.py
MainInputModel(tool) ==
    CASE tool = "torna_push_document" ->
            << ReqStr("name", 1, 100), OptStr("description", 0, NoMax),
               ReqStr("url", 0, NoMax),
               FieldSpec("http_method", "method", FALSE, FALSE, JStr("GET"), 0, NoMax),
               DefStr("content_type", "application/json"), DefBool("is_folder", FALSE),
               OptStr("parent_id", 0, NoMax), DefBool("is_show", TRUE),
               DefStr("version", "1.0"), TokenField,
               OptList("request_params", JList(<<>>)), OptList("header_params", JList(<<>>)),
               OptList("response_params", JList(<<>>)), OptList("error_codes", JList(<<>>)),
               OptStr("debug_env_name", 0, NoMax), OptStr("debug_env_url", 0, NoMax),
               FormatField >>
      [] tool = "torna_create_category" ->
            << ReqStr("name", 1, 100), OptStr("parent_id", 0, NoMax),
               OptStr("description", 0, NoMax), TokenField, FormatField >>
      [] tool = "torna_update_category_name" ->
            << ReqStr("category_id", 0, NoMax), ReqStr("name", 1, 100), TokenField,
               FormatField >>
      [] tool \in {"torna_list_documents", "torna_list_dictionaries"} ->
            << TokenField, OptInt("limit", 20, 1, 100), OptInt("offset", 0, 0, NoMax),
               FormatField >>
      [] tool = "torna_get_document_detail" ->
            << ReqStr("doc_id", 0, NoMax), TokenField, FormatField >>
      [] tool = "torna_get_document_details_batch" ->
            << ReqList("doc_ids", 1, 50), TokenField, FormatField >>
      [] tool = "torna_create_dictionary" ->
            << ReqStr("name", 1, 100), OptStr("description", 0, NoMax), TokenField,
               FormatField >>
      [] tool = "torna_update_dictionary" ->
            << ReqStr("dict_id", 0, NoMax), OptStr("name", 1, 100),
               OptStr("description", 0, NoMax), TokenField, FormatField >>
      [] tool \in {"torna_get_dictionary_detail", "torna_delete_dictionary"} ->
            << ReqStr("dict_id", 0, NoMax), TokenField, FormatField >>
      [] tool = "torna_create_module" ->
            << ReqStr("name", 1, 100), OptStr("description", 0, NoMax),
               ReqStr("project_id", 0, NoMax), TokenField, FormatField >>
      [] tool = "torna_update_module" ->
            << ReqStr("module_id", 0, NoMax), OptStr("name", 1, 100),
               OptStr("description", 0, NoMax), TokenField, FormatField >>
      [] tool = "torna_list_modules" ->
            << OptStr("project_id", 0, NoMax), TokenField, OptInt("limit", 20, 1, 100),
               OptInt("offset", 0, 0, NoMax), FormatField >>
      [] tool \in {"torna_get_module_detail", "torna_delete_module"} ->
            << ReqStr("module_id", 0, NoMax), TokenField, FormatField >>

\* the input model of each tool of refactored_server.py
RefactoredInputModel(tool) ==
    CASE tool = "torna_list_documents" -> << OptList("doc_ids", JNull), FormatField >>
      [] tool = "torna_get_document_detail" ->
            << ReqStr("doc_id", 0, NoMax), FormatField >>
      [] tool = "torna_push_document" ->
            << ReqStr("name", 0, NoMax), OptStr("description", 0, NoMax),
               ReqStr("url", 0, NoMax), ReqStr("http_method", 0, NoMax),
               DefStr("content_type", "application/json"), DefBool("is_folder", FALSE),
               OptStr("parent_id", 0, NoMax), DefBool("is_show", TRUE),
               OptList("request_params", JNull), OptList("header_params", JNull),
               OptList("path_params", JNull), OptList("query_params", JNull),
               OptList("response_params", JNull), OptList("error_codes", JNull),
               OptStr("debug_env_name", 0, NoMax), OptStr("debug_env_url", 0, NoMax),
               FormatField >>
      [] tool \in {"torna_get_module_info", "torna_list_categories"} -> << FormatField >>
      [] tool = "torna_get_batch_documents" ->
            << ReqList("doc_ids", 0, NoMax), FormatField >>
      [] tool \in {"torna_create_category", "torna_delete_debug_env"} ->
            << ReqStr("name", 0, NoMax), FormatField >>
      [] tool = "torna_update_category_name" ->
            << ReqStr("category_id", 0, NoMax), ReqStr("name", 0, NoMax), FormatField >>
      [] tool = "torna_push_enum" ->
            << ReqStr("name", 0, NoMax),
               FieldSpec("description", "str", FALSE, TRUE, JStr(""), 0, NoMax),
               OptList("items", JList(<<>>)), FormatField >>
      [] tool = "torna_batch_push_enums" -> << ReqList("enums", 0, NoMax), FormatField >>
      [] tool = "torna_set_debug_env" ->
            << ReqStr("name", 0, NoMax), ReqStr("url", 0, NoMax), FormatField >>

\* every field name of the input models
FieldNames ==
    {"name", "description", "url", "http_method", "content_type", "is_folder",
     "parent_id", "is_show", "version", "access_token", "request_params",
     "header_params", "path_params", "query_params", "response_params", "error_codes",
     "debug_env_name", "debug_env_url", "response_format", "category_id", "limit",
     "offset", "doc_id", "doc_ids", "dict_id", "module_id", "project_id", "items",
     "enums"}

\* a validation that knows the types and the enumerations of the fields but
\* none of their limits (min_length, max_length, ge, le, min_items, max_items)
ValidatedFieldUnbounded(spec, v, strip) ==
    IF v = Absent THEN (IF spec.required THEN Absent ELSE spec.default)
    ELSE IF v = JNull THEN (IF spec.nullable THEN JNull ELSE Absent)
    ELSE CASE spec.kind = "str" ->
                IF ~IsStr(v) THEN Absent
                ELSE JStr(IF strip THEN Strip(v.s) ELSE v.s)
           [] spec.kind = "int" -> IF v.t = "int" THEN v ELSE Absent
           [] spec.kind = "bool" -> IF v.t = "bool" THEN v ELSE Absent
           [] spec.kind = "list" -> IF IsList(v) THEN v ELSE Absent
           [] spec.kind = "format" ->
                IF IsStr(v) /\ v.s \in ResponseFormat THEN v ELSE Absent
           [] spec.kind = "method" ->
                IF IsStr(v) /\ v.s \in HttpMethod THEN v ELSE Absent

\* the validated value of one field, or Absent when the value is rejected;
\* strip is the str_strip_whitespace setting of the model
ValidatedField(spec, v, strip) ==
    LET WithinLimits(n) == n >= spec.min /\ (spec.max = NoMax \/ n <= spec.max)
    IN
    IF v = Absent THEN (IF spec.required THEN Absent ELSE spec.default)
    ELSE IF v = JNull THEN (IF spec.nullable THEN JNull ELSE Absent)
    ELSE CASE spec.kind = "str" ->
                IF ~IsStr(v) THEN Absent
                ELSE LET s == IF strip THEN Strip(v.s) ELSE v.s
                     IN  IF WithinLimits(Len(s)) THEN JStr(s) ELSE Absent
           [] spec.kind = "int" ->
                IF v.t = "int" /\ WithinLimits(v.n) THEN v ELSE Absent
           [] spec.kind = "bool" -> IF v.t = "bool" THEN v ELSE Absent
           [] spec.kind = "list" ->
                IF IsList(v) /\ WithinLimits(Len(v.items)) THEN v ELSE Absent
           [] spec.kind = "format" ->
                IF IsStr(v) /\ v.s \in ResponseFormat THEN v ELSE Absent
           [] spec.kind = "method" ->
                IF IsStr(v) /\ v.s \in HttpMethod THEN v ELSE Absent

\* Model(**arguments): the params object, or the ValidationError that keeps
\* the tool function from being entered
Validate(model, arguments, strip) ==
    LET spec(f) == model[CHOOSE i \in 1..Len(model) : model[i].name = f]
        declared == {model[i].name : i \in 1..Len(model)}
        value(f) == ValidatedField(spec(f), arguments[f], strip)
    IN  IF \E f \in declared : value(f) = Absent
        THEN Raise(Exc("ValidationError", "validation error"))
        ELSE Ret([f \in FieldNames |->
                    IF f = "response_format" THEN value(f).s
                    ELSE IF f \in declared THEN value(f) ELSE JNull])

---------------------------------------------------------------------------
(* The arguments a caller sends and the replies the Torna server gives *)

\* the arguments of one call: every field the caller did not send is Absent
Args(sent) == [f \in FieldNames |-> IF f \in DOMAIN sent THEN sent[f] ELSE Absent]

\* a call that names no field
Nothing == [response_format |-> Absent]

Strs(ss) == JList([i \in 1..Len(ss) |-> JStr(ss[i])])

\* s * n: a text of n copies of s
RECURSIVE Repeat(_, _)
Repeat(s, n) ==
    IF n <= 0 THEN ""
    ELSE IF n = 1 THEN s
    ELSE Repeat(s, n \div 2) \o Repeat(s, n - n \div 2)

\* a list of n document ids
Ids(n) == JList([i \in 1..n |-> JStr("d" \o NatStr(i))])

ParamRow ==
    JObj(<< <<"name", JStr("user")>>, <<"type", JStr("string")>>,
            <<"required", JBool(TRUE)>>, <<"description", JStr("user name")>> >>)

EnumRow ==
    JObj(<< <<"name", JStr("RED")>>, <<"value", JStr("1")>> >>)

\* a record extended by one field
With(sent, f, v) ==
    [g \in DOMAIN sent \cup {f} |-> IF g = f THEN v ELSE sent[g]]

\* the arguments callers send to a tool of main.py: those the input model
\* accepts, with access_token, and with response_format "json" or left to
\* its default; and those the input model rejects
MainArguments(tool) ==
  LET Accepted ==
    CASE tool = "torna_push_document" ->
            { [name |-> JStr("Login"), url |-> JStr("/api/login"),
               http_method |-> JStr("POST")],
              [name |-> JStr(" Login $ "), url |-> JStr("/api/login"),
               description |-> JStr("User login"), parent_id |-> JStr("c1"),
               request_params |-> JList(<<ParamRow>>),
               debug_env_name |-> JStr("dev"), debug_env_url |-> JStr("http://dev")],
              [name |-> JStr("Login"), url |-> JStr("/api/login"),
               debug_env_name |-> JStr("dev")],
              [name |-> JStr("Login"), url |-> JStr("/api/login"),
               debug_env_url |-> JStr("http://dev")],
              [name |-> JStr("Login"), url |-> JStr("/api/login"),
               debug_env_name |-> JStr(" "), debug_env_url |-> JStr("http://dev")] }
      [] tool = "torna_create_category" ->
            { [name |-> JStr("cat $")],
              [name |-> JStr("cat"), description |-> JStr("d"), parent_id |-> JStr("c0")],
              [name |-> JStr(Repeat("n", 100))],
              [name |-> JStr(" " \o Repeat("n", 100) \o " ")] }
      [] tool = "torna_update_category_name" ->
            { [category_id |-> JStr("c1"), name |-> JStr("renamed")] }
      [] tool \in {"torna_list_documents", "torna_list_dictionaries"} ->
            { Nothing, [limit |-> JInt(5), offset |-> JInt(1)], [limit |-> JNull],
              [limit |-> JInt(1), offset |-> JInt(0)] }
      [] tool = "torna_get_document_detail" ->
            { [doc_id |-> JStr("d1")], [doc_id |-> JStr("missing")] }
      [] tool = "torna_get_document_details_batch" ->
            { [doc_ids |-> Strs(<<"d1", "d2">>)], [doc_ids |-> Ids(50)] }
      [] tool = "torna_create_dictionary" ->
            { [name |-> JStr("colors")], [name |-> JStr("colors"), description |-> JStr("d")] }
      [] tool = "torna_update_dictionary" ->
            { [dict_id |-> JStr("k1")], [dict_id |-> JStr("k1"), name |-> JStr("hues")] }
      [] tool \in {"torna_get_dictionary_detail", "torna_delete_dictionary"} ->
            { [dict_id |-> JStr("k1")] }
      [] tool = "torna_create_module" ->
            { [name |-> JStr("billing"), project_id |-> JStr("p1")] }
      [] tool = "torna_update_module" ->
            { [module_id |-> JStr("m1"), description |-> JStr("d")] }
      [] tool = "torna_list_modules" ->
            { Nothing, [project_id |-> JStr("p1"), limit |-> JInt(100)] }
      [] tool \in {"torna_get_module_detail", "torna_delete_module"} ->
            { [module_id |-> JStr("m1")] }

      Rejected ==
    CASE tool \in {"torna_push_document", "torna_create_category",
                   "torna_create_dictionary"} ->
            { [name |-> JStr("  "), url |-> JStr("/x"), access_token |-> JStr("tok1")],
              [name |-> JStr(""), url |-> JStr("/x"), access_token |-> JStr("tok1")],
              [name |-> JStr(Repeat("n", 101)), url |-> JStr("/x"),
               access_token |-> JStr("tok1")],
              [url |-> JStr("/x"), access_token |-> JStr("tok1")] }
      [] tool \in {"torna_list_documents", "torna_list_dictionaries",
                   "torna_list_modules"} ->
            { [limit |-> JInt(0), access_token |-> JStr("tok1")],
              [offset |-> JInt(-1), access_token |-> JStr("tok1")],
              [limit |-> JInt(101), access_token |-> JStr("tok1")] }
      [] tool = "torna_get_document_details_batch" ->
            { [doc_ids |-> JList(<<>>), access_token |-> JStr("tok1")],
              [doc_ids |-> Ids(51), access_token |-> JStr("tok1")] }
      [] tool = "torna_get_document_detail" ->
            { [doc_id |-> JStr("d1")],
              [doc_id |-> JStr("d1"), access_token |-> JStr("tok1"),
               response_format |-> JStr("xml")] }
      [] OTHER -> { [access_token |-> JStr("tok1")], Nothing }
  IN
    { Args(With(With(a, "access_token", JStr("tok1")), "response_format", fmt)) :
        a \in Accepted, fmt \in {JStr("json"), Absent} }
    \cup { Args(a) : a \in Rejected }
    \cup (IF tool = "torna_push_document"
          THEN { Args([name |-> JStr("Login"), url |-> JStr("/x"),
                       http_method |-> JStr("TRACE"), access_token |-> JStr("tok1")]) }
          ELSE {})

\* the arguments callers send to a tool of refactored_server.py: those the
\* input model accepts, with response_format "json" or left to its default;
\* and those the input model rejects
RefactoredArguments(tool) ==
  LET Accepted ==
    CASE tool = "torna_list_documents" ->
            { Nothing, [doc_ids |-> Strs(<<"d1">>)], [doc_ids |-> JList(<<>>)] }
      [] tool = "torna_get_document_detail" ->
            { [doc_id |-> JStr("d1")], [doc_id |-> JStr("missing $")] }
      [] tool = "torna_push_document" ->
            { [name |-> JStr("Login"), url |-> JStr("/api/login"),
               http_method |-> JStr("post")],
              [name |-> JStr("Login $"), url |-> JStr("/api/login"),
               http_method |-> JStr("GET"), description |-> JStr("User login"),
               query_params |-> JList(<<ParamRow>>),
               debug_env_name |-> JStr("dev"), debug_env_url |-> JStr("http://dev")],
              [name |-> JStr("Login"), url |-> JStr("/api/login"),
               http_method |-> JStr("GET"), debug_env_name |-> JStr("dev")],
              [name |-> JStr("Login"), url |-> JStr("/api/login"),
               http_method |-> JStr("GET"), debug_env_url |-> JStr("http://dev")],
              [name |-> JStr("Login"), url |-> JStr("/api/login"),
               http_method |-> JStr("GET"),
               debug_env_name |-> JStr(""), debug_env_url |-> JStr("http://dev")] }
      [] tool \in {"torna_get_module_info", "torna_list_categories"} -> { Nothing }
      [] tool = "torna_get_batch_documents" ->
            { [doc_ids |-> Strs(<<"d1", "d2">>)], [doc_ids |-> JList(<<>>)] }
      [] tool \in {"torna_create_category", "torna_delete_debug_env"} ->
            { [name |-> JStr("cat")], [name |-> JStr("")] }
      [] tool = "torna_update_category_name" ->
            { [category_id |-> JStr("c1"), name |-> JStr("renamed")] }
      [] tool = "torna_push_enum" ->
            { [name |-> JStr("Color")],
              [name |-> JStr("Color $"), description |-> JStr("colors"),
               items |-> JList(<<EnumRow>>)] }
      [] tool = "torna_batch_push_enums" ->
            { [enums |-> JList(<< JObj(<< <<"name", JStr("Color")>>,
                                          <<"items", JList(<<EnumRow>>)>> >>) >>)] }
      [] tool = "torna_set_debug_env" ->
            { [name |-> JStr("dev"), url |-> JStr("http://dev")] }

      Rejected ==
    CASE tool \in {"torna_list_documents", "torna_get_module_info",
                   "torna_list_categories"} ->
            { [response_format |-> JStr("xml")] }
      [] tool = "torna_push_document" ->
            { [name |-> JStr("Login"), url |-> JStr("/api/login")] }
      [] tool = "torna_get_batch_documents" -> { Nothing, [doc_ids |-> JStr("d1")] }
      [] OTHER -> { Nothing, [name |-> JNull, doc_id |-> JNull, category_id |-> JStr("c1")] }
  IN
    { Args(With(a, "response_format", fmt)) :
        a \in Accepted, fmt \in {JStr("json"), Absent} }
    \cup { Args(a) : a \in Rejected }

\* documents as the Torna server describes them
Doc1 ==
    JObj(<< <<"id", JStr("d1")>>, <<"name", JStr("Login $")>>,
            <<"description", JStr("User login")>>, <<"url", JStr("/api/login")>>,
            <<"httpMethod", JStr("POST")>>, <<"contentType", JStr("application/json")>>,
            <<"requestParams", JList(<<ParamRow>>)>> >>)

Doc2 ==
    JObj(<< <<"id", JStr("d2")>>, <<"name", JStr("Logout")>>, <<"url", JNull>> >>)

\* a Response Envelope; a member given as Absent is left out
Envelope(code, msg, data) ==
    JObj((IF code = Absent THEN <<>> ELSE << <<"code", code>> >>)
         \o (IF msg = Absent THEN <<>> ELSE << <<"msg", msg>> >>)
         \o (IF data = Absent THEN <<>> ELSE << <<"data", data>> >>))

\* the envelopes of the replies: every code with every msg and data
Envelopes ==
    LET Codes == {JStr("0"), JInt(0), JStr("-1"), JInt(1), Absent}
        Contents ==
    { <<JStr("success"), Doc1>>,
      <<JStr("success"), JList(<<Doc1, Doc2>>)>>,
      <<JStr("success"), JNull>>,
      <<JStr("success"), Absent>>,
      <<JStr("not found"), JNull>>,
      <<JStr("bad \"id\" $"), Absent>>,
      <<Absent, JObj(<< <<"total", JInt(2)>>, <<"list", JList(<<Doc1>>)>> >>)>>,
      <<JNull, JList(<<>>)>>,
      <<JStr("ok"), JStr("done")>>,
      <<JStr("ok"), JList(<<JStr("x")>>)>> }
    IN  { Envelope(code, c[1], c[2]) : code \in Codes, c \in Contents }

\* what the POST of one call can end in: an envelope (two of them with a
\* description longer than the character budget, three with a document list
\* of no, ten and twelve documents), a JSON body that is no
\* mapping, a body that is no JSON, a status outside 2xx, a timeout, a
\* connection failure
Replies ==
    { Response(200, TRUE, e, "") : e \in Envelopes }
    \cup { Response(201, TRUE, Envelope(JStr("0"), JStr("created"), Doc2), "") }
    \cup { Response(200, TRUE,
                     Envelope(JStr("0"), JStr("success"),
                              JObj(<< <<"total", JInt(n)>>,
                                      <<"list", JList([i \in 1..n |->
                                          JObj(<< <<"id", JStr("d" \o NatStr(i))>>,
                                                  <<"name", JStr("Doc" \o NatStr(i))>> >>)])>> >>)),
                     "")
            : n \in {0, 10, 12} }
    \cup { Response(200, TRUE,
                     Envelope(code, JStr("success"),
                              JObj(<< <<"id", JStr("d9")>>, <<"name", JStr("Long")>>,
                                      <<"description",
                                        JStr(Repeat("word ", CHARACTER_LIMIT \div 4))>> >>)), "")
            : code \in {JStr("0"), JStr("-1")} }
    \cup { Response(200, TRUE, v, "") : v \in { JNull, JList(<<>>), JStr("ok"), JInt(1) } }
    \cup { Response(200, FALSE, JNull, "<html>"), Response(200, FALSE, JNull, "") }
    \cup { Response(st, FALSE, JNull, "denied") : st \in {302, 401, 403, 404, 429, 500} }
    \cup { Response(404, TRUE, Envelope(JStr("404"), JStr("no such path"), Absent), "") }
    \cup { TimedOut, ConnectFailed }

\* the replies of the specification with concurrent calls
FewReplies ==
    { Response(200, TRUE, Envelope(JStr("0"), JStr("success"), JNull), ""),
      Response(200, TRUE, Envelope(JInt(0), JStr("success"), Doc1), ""),
      Response(200, TRUE, Envelope(JStr("-1"), JStr("not found"), JNull), ""),
      Response(404, FALSE, JNull, "denied"),
      TimedOut }

\* can a POST to this URL be sent at all: httpx refuses a URL without
\* an http(s) scheme before it connects
Postable(url) == StartsWith(url, "http://") \/ StartsWith(url, "https://")

\* the clock readings datetime.now() gives, in TIMESTAMP_PATTERN
Clock == {"2024-01-01 00:00:00", "2024-01-01 00:00:01"}

\* the environments a server process is started in
\* (JNull: the variable is not set); each server is given the variables it reads
Environments(v) ==
    { [TORNA_URL |-> u, TORNA_TOKENS |-> ts, TORNA_TOKEN |-> t] :
        u \in {JNull, JStr(""), JStr("http://torna/api")}
              \cup (IF v = "refactored" THEN {JStr("http://torna/")} ELSE {}),
        ts \in IF v = "main" THEN {JNull, JStr(""), JStr("tok1,tok2"), JStr(",tok2")}
               ELSE {JNull},
        t \in IF v = "refactored" THEN {JNull, JStr(""), JStr("tok")} ELSE {JNull} }

\* os.getenv(key, default)
getenv(env, key, default) == IF env[key] = JNull THEN default ELSE env[key]

\* s.split(",")
RECURSIVE Split(_, _)
Split(s, acc) ==
    IF s = "" THEN <<JStr(acc)>>
    ELSE IF Char(s, 1) = "," THEN <<JStr(acc)>> \o Split(SubSeq(s, 2, Len(s)), "")
    ELSE Split(SubSeq(s, 2, Len(s)), acc \o Char(s, 1))

\* base_url.rstrip('/')
RECURSIVE RStripSlash(_)
RStripSlash(s) ==
    IF s # "" /\ Char(s, Len(s)) = "/" THEN RStripSlash(SubSeq(s, 1, Len(s) - 1)) ELSE s

\* a normalisation that looks at the end of the URL only
ClientBaseUrlByEnd(base_url) ==
    IF ~EndsWith(RStripSlash(base_url), "/api")
    THEN RStripSlash(base_url) \o "/api" ELSE RStripSlash(base_url)

\* TornaClient.__init__: the base URL the client posts to
ClientBaseUrl(base_url) ==
    LET u == RStripSlash(base_url)
    IN  IF ~EndsWith(u, "/api") /\ ~Contains(u, "/api/") THEN u \o "/api" ELSE u

---------------------------------------------------------------------------
(* The server process and its tool calls *)

\* a call slot nobody uses: no validated params, no reply
Idle ==
    [pc |-> "idle", tool |-> "", arguments |-> Args(Nothing),
     params |-> [f \in FieldNames |-> IF f = "response_format" THEN "" ELSE JNull],
     now |-> "", url |-> "", sent |-> JNull, posts |-> 0, client |-> "none",
     reply |-> [k |-> "none", status |-> 0, json |-> FALSE, v |-> JNull, text |-> ""],
     result |-> "", raised |-> ""]

\* the two servers of the repository
Variants == {"main", "refactored"}

\* no program uses the client library directly
NoLibrary ==
    /\ heap = <<>>
    /\ locals = [form_data |-> 0, request_form |-> Absent, got |-> {},
                 given |-> Absent, base_url |-> "", scopes |-> 0,
                 outcome |-> Absent]
    /\ torna_client = Absent
    /\ transports = <<>>

InitWith(slots) ==
    /\ NoLibrary
    /\ variant \in Variants
    /\ environ \in Environments(variant)
    /\ proc = "boot"
    /\ API_BASE_URL = Absent
    /\ TORNA_TOKENS = Absent
    /\ TORNA_TOKEN = Absent
    /\ calls = [c \in slots |-> Idle]

\* one call at a time, one after the other
Init == InitWith({1})

\* MaxCalls calls at a time
InitConc == InitWith(1..MaxCalls)

\* main.py lines 26-34, run when the module is loaded
MainStart ==
    /\ variant = "main"
    /\ proc = "boot"
    /\ API_BASE_URL' = environ.TORNA_URL
    /\ TORNA_TOKENS' = IF Truthy(environ.TORNA_TOKENS)
                       THEN JList(Split(environ.TORNA_TOKENS.s, ""))
                       ELSE JList(<<>>)
    /\ proc' = IF ~Truthy(API_BASE_URL') THEN "crashed"
               ELSE IF ~Truthy(TORNA_TOKENS') \/ ~Truthy(TORNA_TOKENS'.items[1])
               THEN "crashed"
               ELSE "serving"
    /\ UNCHANGED <<library, variant, environ, TORNA_TOKEN, calls>>

\* refactored_server.py lines 61-62 when the module is loaded, then main()
RefactoredStart ==
    /\ variant = "refactored"
    /\ proc = "boot"
    /\ API_BASE_URL' = JNull
    /\ TORNA_TOKEN' = JStr("")
    /\ proc' = "serving"
    /\ UNCHANGED <<library, variant, environ, TORNA_TOKENS, calls>>

\* every tool name of the model
AllTools == MainTools \cup RefactoredTools

\* the arguments callers send to each tool of each server
ArgumentsOf ==
    [v \in Variants |-> [tool \in AllTools |->
        IF v = "main" /\ tool \in MainTools THEN MainArguments(tool)
        ELSE IF v = "refactored" /\ tool \in RefactoredTools
        THEN RefactoredArguments(tool)
        ELSE {}]]

\* the arguments callers send to a tool of this name, of either server
AnyArguments ==
    [tool \in AllTools |-> UNION {ArgumentsOf[v][tool] : v \in Variants}]

\* the framework receives a call: it validates the arguments against the
\* input model and enters the tool function only when they are valid
Invoke(c, tool, arguments) ==
    /\ c \in DOMAIN calls
    /\ proc = "serving"
    /\ calls[c].pc = "idle"
    /\ tool \in (IF variant = "main" THEN MainTools ELSE RefactoredTools)
    /\ arguments \in ArgumentsOf[variant][tool]
    /\ LET validated ==
               IF variant = "main"
               THEN Validate(MainInputModel(tool), arguments, TRUE)
               ELSE Validate(RefactoredInputModel(tool), arguments, FALSE)
       IN  calls' = [calls EXCEPT ![c] =
               IF validated.ok
               THEN [@ EXCEPT !.pc = "running", !.tool = tool,
                              !.arguments = arguments, !.params = validated.v]
               ELSE [@ EXCEPT !.pc = "rejected", !.tool = tool,
                              !.arguments = arguments,
                              !.raised = validated.exc.cls]]
    /\ UNCHANGED <<library, variant, environ, proc, config>>

\* main.py: a tool builds its payload and _make_api_request posts it
MainPost(c) ==
    /\ c \in DOMAIN calls
    /\ variant = "main"
    /\ calls[c].pc = "running"
    /\ LET call == calls[c]
           request_data ==
               make_request_data(MainInterface(call.tool),
                                 MainVersion(call.tool, call.params),
                                 MainPayload(call.tool, call.params),
                                 call.params.access_token)
       IN  calls' = [calls EXCEPT ![c] =
               [@ EXCEPT !.pc = "awaiting", !.client = "open",
                         !.url = API_BASE_URL.s, !.sent = request_data,
                         !.posts = @ + 1]]
    /\ UNCHANGED <<library, variant, environ, proc, config>>

\* main.py: the POST ends; the tool formats the outcome and returns
MainReceive(c, reply) ==
    /\ c \in DOMAIN calls
    /\ variant = "main"
    /\ calls[c].pc = "awaiting"
    /\ Postable(calls[c].url) \/ reply = ConnectFailed
    /\ LET returned == MainToolReturn(calls[c].tool, calls[c].params, reply)
       IN  calls' = [calls EXCEPT ![c] =
               [@ EXCEPT !.pc = "done", !.client = "closed", !.reply = reply,
                         !.result = IF returned.ok THEN returned.v ELSE "",
                         !.raised = IF returned.ok THEN "" ELSE returned.exc.cls]]
    /\ UNCHANGED <<library, variant, environ, proc, config>>

\* a refactored tool body has no await in it: once it has started, the event
\* loop runs nothing else until it returns
InBody(c) == calls[c].pc \in {"envok", "awaiting"}

\* refactored_server.py: the tool function starts with _validate_environment()
RefactoredValidateEnv(c) ==
    /\ c \in DOMAIN calls
    /\ variant = "refactored"
    /\ calls[c].pc = "running"
    /\ \A d \in DOMAIN calls : ~InBody(d)
    /\ API_BASE_URL' = getenv(environ, "TORNA_URL", JStr(DEFAULT_API_URL))
    /\ TORNA_TOKEN' = getenv(environ, "TORNA_TOKEN", JStr(""))
    /\ calls' = [calls EXCEPT ![c] =
           IF ~Truthy(TORNA_TOKEN')
           THEN [@ EXCEPT !.pc = "done",
                          !.result = handle_api_error_refactored(MissingToken)]
           ELSE [@ EXCEPT !.pc = "envok"]]
    /\ UNCHANGED <<library, variant, environ, proc, TORNA_TOKENS>>

\* refactored_server.py: with TornaClient(...) as client, the tool builds its
\* request; TornaClient.execute creates the form and posts it
RefactoredExecute(c, now) ==
    /\ c \in DOMAIN calls
    /\ variant = "refactored"
    /\ calls[c].pc = "envok"
    /\ LET call == calls[c]
           request == RefactoredRequest(call.tool, call.params, TORNA_TOKEN)
           request_form == create_request_form(request, now)
       IN  calls' = [calls EXCEPT ![c] =
               IF request_form.ok
               THEN [@ EXCEPT !.pc = "awaiting", !.client = "open", !.now = now,
                              !.url = ClientBaseUrl(API_BASE_URL.s),
                              !.sent = get_form(request_form.v),
                              !.posts = @ + 1]
               ELSE LET returned ==
                            RefactoredToolReturn(call.tool, call.params, request_form)
                    IN  [@ EXCEPT !.pc = "done", !.client = "closed", !.now = now,
                                  !.result = IF returned.ok THEN returned.v ELSE "",
                                  !.raised = IF returned.ok THEN ""
                                             ELSE returned.exc.cls]]
    /\ UNCHANGED <<library, variant, environ, proc, config>>

\* refactored_server.py: the POST ends; execute parses or wraps the outcome,
\* the with block closes the client, the tool formats the outcome and returns
RefactoredReceive(c, reply) ==
    /\ c \in DOMAIN calls
    /\ variant = "refactored"
    /\ calls[c].pc = "awaiting"
    /\ Postable(calls[c].url) \/ reply = ConnectFailed
    /\ LET call == calls[c]
           request == RefactoredRequest(call.tool, call.params, TORNA_TOKEN)
           returned == RefactoredToolReturn(call.tool, call.params,
                                            execute_exchange(request, reply))
       IN  calls' = [calls EXCEPT ![c] =
               [@ EXCEPT !.pc = "done", !.client = "closed", !.reply = reply,
                         !.result = IF returned.ok THEN returned.v ELSE "",
                         !.raised = IF returned.ok THEN "" ELSE returned.exc.cls]]
    /\ UNCHANGED <<library, variant, environ, proc, config>>

\* the framework hands the outcome of the call to the caller
Return(c) ==
    /\ c \in DOMAIN calls
    /\ calls[c].pc \in {"done", "rejected"}
    /\ calls' = [calls EXCEPT ![c] = Idle]
    /\ UNCHANGED <<library, variant, environ, proc, config>>

\* the call slots of the specifications
Slots == 1..MaxCalls

Next ==
    \/ MainStart
    \/ RefactoredStart
    \/ \E c \in Slots : \E tool \in AllTools : \E arguments \in AnyArguments[tool] :
           Invoke(c, tool, arguments)
    \/ \E c \in Slots : MainPost(c)
    \/ \E c \in Slots : \E reply \in Replies : MainReceive(c, reply)
    \/ \E c \in Slots : RefactoredValidateEnv(c)
    \/ \E c \in Slots : \E now \in Clock : RefactoredExecute(c, now)
    \/ \E c \in Slots : \E reply \in Replies : RefactoredReceive(c, reply)
    \/ \E c \in Slots : Return(c)

Spec == Init /\ [][Next]_vars

\* a call of one of the tools that are called concurrently
InvokeFew(c, tool, arguments) ==
    /\ tool \in (IF variant = "main"
                 THEN {"torna_delete_module", "torna_get_document_detail"}
                 ELSE {"torna_get_document_detail", "torna_create_category"})
    /\ Invoke(c, tool, arguments)

NextConc ==
    \/ MainStart
    \/ RefactoredStart
    \/ \E c \in Slots : \E tool \in AllTools : \E arguments \in AnyArguments[tool] :
           InvokeFew(c, tool, arguments)
    \/ \E c \in Slots : MainPost(c)
    \/ \E c \in Slots : \E reply \in FewReplies : MainReceive(c, reply)
    \/ \E c \in Slots : RefactoredValidateEnv(c)
    \/ \E c \in Slots : RefactoredExecute(c, "2024-01-01 00:00:00")
    \/ \E c \in Slots : \E reply \in FewReplies : RefactoredReceive(c, reply)

SpecConc == InitConc /\ [][NextConc]_vars

---------------------------------------------------------------------------
(* refactored_client.py used directly: RequestForm *)

\* no server runs
Unstarted ==
    /\ variant = "refactored"
    /\ environ = [TORNA_URL |-> JNull, TORNA_TOKENS |-> JNull, TORNA_TOKEN |-> JNull]
    /\ proc = "boot"
    /\ API_BASE_URL = Absent
    /\ TORNA_TOKENS = Absent
    /\ TORNA_TOKEN = Absent
    /\ calls = [c \in {1} |-> Idle]

\* the dicts a caller builds a RequestForm from, and the keys and values it
\* writes into a dict afterwards
FormDicts ==
    { JObj(<<>>), JObj(<< <<"name", JStr("test")>> >>),
      JObj(<< <<"name", JStr("test")>>, <<"value", JStr("123")>> >>) }
FormKeys == {"name", "value"}
FormValues == {JStr("test"), JStr("123")}

\* the same object under a second name
alias(h, r) == [heap |-> h, ref |-> r]

\* dict.copy(): a new object holding the members of the dict at r
copy(h, r) == [heap |-> Append(h, DictCopy(h[r])), ref |-> Len(h) + 1]

\* the caller holds one dict, form_data
InitForm ==
    /\ Unstarted
    /\ heap \in { <<d>> : d \in FormDicts }
    /\ locals = [form_data |-> 1, request_form |-> Absent, got |-> {},
                 given |-> Absent, base_url |-> "", scopes |-> 0,
                 outcome |-> Absent]
    /\ torna_client = Absent
    /\ transports = <<>>

\* request_form = RequestForm(form_data)
RequestFormInit ==
    /\ locals.request_form = Absent
    /\ LET form == copy(heap, locals.form_data)
       IN  /\ heap' = form.heap
           /\ locals' = [locals EXCEPT !.request_form = [form |-> form.ref],
                                       !.given = heap[locals.form_data]]
    /\ UNCHANGED <<torna_client, transports, variant, environ, proc, config, calls>>

\* request_form.get_form(), the caller keeps what it returns
GetForm ==
    /\ locals.request_form # Absent
    /\ Len(heap) < MaxObjects
    /\ LET returned == copy(heap, locals.request_form.form)
       IN  /\ heap' = returned.heap
           /\ locals' = [locals EXCEPT !.got = @ \cup {returned.ref}]
    /\ UNCHANGED <<torna_client, transports, variant, environ, proc, config, calls>>

\* d[k] = v on a dict the caller holds: form_data or one get_form() returned
SetItem(r, k, v) ==
    /\ r \in {locals.form_data} \cup locals.got
    /\ heap' = [heap EXCEPT ![r] =
            IF HasKey(@, k)
            THEN JObj([i \in 1..Len(@.members) |->
                        IF @.members[i][1] = k THEN <<k, v>> ELSE @.members[i]])
            ELSE JObj(Append(@.members, <<k, v>>))]
    /\ heap' # heap
    /\ UNCHANGED <<locals, torna_client, transports, variant, environ, proc, config, calls>>

\* del d[k] on a dict the caller holds
DelItem(r, k) ==
    /\ r \in {locals.form_data} \cup locals.got
    /\ HasKey(heap[r], k)
    /\ heap' = [heap EXCEPT ![r] =
            JObj(SelectSeq(@.members, LAMBDA member : member[1] # k))]
    /\ UNCHANGED <<locals, torna_client, transports, variant, environ, proc, config, calls>>

NextForm ==
    \/ RequestFormInit
    \/ GetForm
    \/ \E r \in 1..MaxObjects : \E k \in FormKeys : \E v \in FormValues : SetItem(r, k, v)
    \/ \E r \in 1..MaxObjects : \E k \in FormKeys : DelItem(r, k)

SpecForm == InitForm /\ [][NextForm]_vars

---------------------------------------------------------------------------
(* refactored_client.py used directly: TornaClient *)

\* the base URLs a caller constructs a TornaClient with
BaseUrls ==
    { "", "torna/api", "http://torna", "http://torna/", "http://torna//",
      "http://torna/api", "http://torna/api/", "http://torna/api//",
      "http://torna/api/v1", "http://torna/api/v1/", "http://torna/apis",
      "http://torna/myapi/" }

\* the requests a caller executes
Requests == { DocListRequest(JStr("tok")), DocCategoryCreateRequest(JStr("tok"), JStr("Users")) }

\* the ways the server answers them
ClientReplies ==
    FewReplies \cup { ConnectFailed, Response(200, FALSE, JNull, "<html>"),
                      Response(200, TRUE, JList(<<>>), "") }

\* no TornaClient yet
InitClient ==
    /\ Unstarted
    /\ NoLibrary

\* client = TornaClient(base_url, token)
TornaClientInit(base_url, token) ==
    /\ torna_client = Absent
    /\ torna_client' = [base_url |-> ClientBaseUrl(base_url), token |-> token, client |-> 0]
    /\ locals' = [locals EXCEPT !.base_url = base_url]
    /\ UNCHANGED <<heap, transports, variant, environ, proc, config, calls>>

\* TornaClient.__enter__, at the head of a with statement: self.client is a new
\* httpx.Client
Enter ==
    /\ torna_client # Absent
    /\ Len(transports) < MaxTransports
    /\ transports' = Append(transports, "open")
    /\ torna_client' = [torna_client EXCEPT !.client = Len(transports) + 1]
    /\ locals' = [locals EXCEPT !.scopes = @ + 1]
    /\ UNCHANGED <<heap, variant, environ, proc, config, calls>>

\* TornaClient.__exit__, when a with block is left by its end or by an
\* exception: self.client is closed and stays assigned
Exit ==
    /\ torna_client # Absent
    /\ locals.scopes > 0
    /\ transports' = IF torna_client.client # 0
                     THEN [transports EXCEPT ![torna_client.client] = "closed"]
                     ELSE transports
    /\ locals' = [locals EXCEPT !.scopes = @ - 1]
    /\ UNCHANGED <<heap, torna_client, variant, environ, proc, config, calls>>

\* TornaClient.execute(request), inside or outside a with block; httpx.Client
\* is synchronous, the call runs to its end.  A closed httpx.Client refuses to
\* send with a RuntimeError.
Execute(request, now, reply) ==
    /\ torna_client # Absent
    /\ Postable(torna_client.base_url) \/ reply = ConnectFailed
    /\ LET request_form == create_request_form(request, now)
           transport == IF torna_client.client = 0 THEN "none"
                        ELSE transports[torna_client.client]
           result ==
               IF torna_client.client = 0
               THEN Raise(TornaAPIError("CLIENT_ERROR",
                          "[zh: client not initialised, use a with statement]"))
               ELSE IF ~request_form.ok THEN request_form
               ELSE IF transport = "closed"
               THEN Raise(TornaAPIError("UNKNOWN_ERROR", "[zh: unknown error]: "
                          \o "Cannot send a request, as the client has been closed."))
               ELSE execute_exchange(request, reply)
       IN  locals' = [locals EXCEPT !.outcome =
               [r |-> result, request |-> request, reply |-> reply,
                transport |-> transport, scopes |-> locals.scopes,
                posted |-> torna_client.client # 0 /\ request_form.ok]]
    /\ UNCHANGED <<heap, torna_client, transports, variant, environ, proc, config, calls>>

NextClient ==
    \/ \E base_url \in BaseUrls : TornaClientInit(base_url, "tok")
    \/ Enter
    \/ Exit
    \/ \E request \in Requests : \E reply \in ClientReplies :
           Execute(request, "2024-01-01 00:00:00", reply)

SpecClient == InitClient /\ [][NextClient]_vars

---------------------------------------------------------------------------
(* Vocabulary of the properties *)

\* the tool function of call c has returned
Finished(c) == calls[c].pc = "done"

\* the success sentinel of a Response Envelope: the string "0" or the number 0
Sentinels == {JStr("0"), JInt(0)}

\* the POST of call c was answered 2xx with a JSON mapping
Enveloped(c) ==
    /\ calls[c].reply.k = "response"
    /\ calls[c].reply.status \div 100 = 2
    /\ calls[c].reply.json
    /\ IsObj(calls[c].reply.v)

\* the members of the envelope that answered call c (Absent: left out)
CodeOf(c) == Get(calls[c].reply.v, "code", Absent)
MsgOf(c) == Get(calls[c].reply.v, "msg", Absent)

\* the status line of a Markdown report of main.py
SuccessLine == CheckMark \o " **Operation completed successfully**"
FailureLine == CrossMark \o " **Operation failed**"

\* the failure text of a refactored tool
RemoteFailure(c) ==
    "Error: " \o PyStr(Get(calls[c].reply.v, "msg", JNull))
    \o " (code: " \o PyStr(Get(calls[c].reply.v, "code", JNull)) \o ")"

---------------------------------------------------------------------------
(* C1 *)

\* C1: for every request class of refactored_client.py and every constructor
\* argument, create_request_form() returns a form whose name is the interface
\* name of the class, whose version is "1.0", whose access_token is the token
\* given at construction and whose data is the percent-encoding of
\* build_json_data().  Stated of every request a tool has handed to
\* TornaClient.execute.  It fails: the four classes that store a constructor
\* argument as self.name raise TypeError instead of returning a form.
C1_FormOfEveryRequestClass ==
    \A c \in DOMAIN calls :
        (variant = "refactored" /\ calls[c].client # "none") =>
            LET request == RefactoredRequest(calls[c].tool, calls[c].params, TORNA_TOKEN)
                form == calls[c].sent
            IN  /\ IsObj(form)
                /\ Get(form, "name", Absent) = JStr(InterfaceName(request.cls))
                /\ Get(form, "version", Absent) = JStr("1.0")
                /\ Get(form, "access_token", Absent) = TORNA_TOKEN
                /\ Get(form, "data", Absent) = JStr(Quote(build_json_data(request), ""))

---------------------------------------------------------------------------
(* C2 *)

\* C2: an envelope is treated as a success if and only if its code is "0" or
\* 0, in main.py's _format_response (Markdown shows the failure line exactly
\* for the other codes) and in the refactored tools (they return the remote
\* failure text exactly for the other codes).  It fails: BaseResponse.is_success
\* compares with the string "0" only, so the number 0 is a failure there.
C2_SuccessIffZeroCode ==
    \A c \in DOMAIN calls :
        (Finished(c) /\ Enveloped(c)) =>
            IF variant = "main"
            THEN calls[c].params.response_format = "markdown" =>
                    (CodeOf(c) \in Sentinels <=> ~Contains(calls[c].result, FailureLine))
            ELSE CodeOf(c) \in Sentinels <=> calls[c].result # RemoteFailure(c)

---------------------------------------------------------------------------
(* C3 *)

\* the configuration check of call c succeeded: main.py checks when the
\* process starts, the refactored server checks TORNA_TOKEN in the call
Configured(c) == variant = "main" \/ Truthy(getenv(environ, "TORNA_TOKEN", JStr("")))

\* C3: a call whose validation and configuration check succeed issues
\* exactly one POST, whatever the POST ends in; a call rejected by
\* validation or configuration issues none.  It fails: the refactored tools
\* whose request class raises in create_request_form (C1) return without
\* any POST.
C3_ExactlyOnePost ==
    \A c \in DOMAIN calls :
        /\ calls[c].posts <= 1
        /\ calls[c].pc = "rejected" => calls[c].posts = 0
        /\ Finished(c) => calls[c].posts = (IF Configured(c) THEN 1 ELSE 0)

---------------------------------------------------------------------------
(* C4 *)

\* C4: every tool call returns a string and never raises past the tool
\* boundary: whatever the HTTP exchange ended in (and when no POST was made
\* at all), a tool function that has ended has returned a text and has raised
\* nothing; only the validation of the arguments, before the tool function
\* is entered, raises.
C4_ToolReturnsString ==
    \A c \in DOMAIN calls :
        /\ Finished(c) => (calls[c].raised = "" /\ calls[c].result # "")
        /\ calls[c].pc # "rejected" => calls[c].raised = ""

\* a call of main.py answered 2xx with a JSON body that is no mapping: the
\* AttributeError is caught at the tool boundary
C4_Witness ==
    \E c \in DOMAIN calls :
        /\ variant = "main"
        /\ Finished(c)
        /\ calls[c].reply = Response(200, TRUE, JNull, "")
        /\ calls[c].params.response_format = "markdown"
        /\ calls[c].result = "Error: Unexpected error occurred: AttributeError"

---------------------------------------------------------------------------
(* C5 *)

\* call c failed: no configuration, no POST, or a POST not answered by an
\* envelope with the success sentinel
Failed(c) == ~Configured(c) \/ calls[c].posts = 0 \/ ~Enveloped(c)
             \/ CodeOf(c) \notin Sentinels

\* C5: every failed call returns a string that begins with "Error:" or
\* "Configuration error:", in either output format, and no successful call
\* returns a string that begins with "Error:".  It fails in both servers.
C5_FailurePrefix ==
    \A c \in DOMAIN calls :
        Finished(c) =>
            IF Failed(c)
            THEN StartsWith(calls[c].result, "Error:")
                 \/ StartsWith(calls[c].result, "Configuration error:")
            ELSE ~StartsWith(calls[c].result, "Error:")

---------------------------------------------------------------------------
(* C6, C7 *)

\* the message the specification gives for each transport failure
StatusMessage(reply) ==
    IF reply.k = "timeout" THEN "Error: Request timed out. Please try again."
    ELSE IF reply.status = 404
    THEN "Error: Resource not found. Please check the ID is correct."
    ELSE IF reply.status = 403
    THEN "Error: Permission denied. You don't have access to this resource."
    ELSE IF reply.status = 429
    THEN "Error: Rate limit exceeded. Please wait before making more requests."
    ELSE "Error: API request failed with status " \o IntStr(reply.status)

\* the POST of call c timed out or was answered with a status outside 2xx
TransportFailure(c) ==
    \/ calls[c].reply.k = "timeout"
    \/ calls[c].reply.k = "response" /\ calls[c].reply.status \div 100 # 2

\* C6: in main.py every tool returns exactly the resource-not-found text for
\* status 404, the permission-denied text for 403, the rate-limit text for
\* 429, "Error: API request failed with status s" for any other status s
\* outside 2xx, and the timed-out text for a timeout.
C6_MainStatusMessages ==
    \A c \in DOMAIN calls :
        (variant = "main" /\ Finished(c) /\ TransportFailure(c)) =>
            calls[c].result = StatusMessage(calls[c].reply)

\* Scenario B: torna_get_document_detail of main.py, doc_id "missing",
\* answered with status 404
C6_Witness ==
    \E c \in DOMAIN calls :
        /\ variant = "main"
        /\ Finished(c)
        /\ calls[c].tool = "torna_get_document_detail"
        /\ calls[c].params.doc_id = JStr("missing")
        /\ calls[c].reply.k = "response"
        /\ calls[c].reply.status = 404
        /\ calls[c].result = "Error: Resource not found. Please check the ID is correct."

\* C7: in the refactored server every tool returns the same texts for
\* status 404, 403, 429 and a timeout.  It fails: TornaClient.execute turns
\* each of these failures into a TornaAPIError, and the tools return
\* "Torna API Error HTTP_ERROR: ..." or "Torna API Error TIMEOUT_ERROR: ...".
C7_RefactoredStatusMessages ==
    \A c \in DOMAIN calls :
        (variant = "refactored" /\ Finished(c) /\ TransportFailure(c)
         /\ (calls[c].reply.k = "timeout" \/ calls[c].reply.status \in {404, 403, 429})) =>
            calls[c].result = StatusMessage(calls[c].reply)

---------------------------------------------------------------------------
(* C8 *)

\* call c was answered 2xx by an envelope that carries a code other than the
\* success sentinel, and a msg that is a string
RemoteFailed(c) ==
    /\ Finished(c)
    /\ Enveloped(c)
    /\ CodeOf(c) # Absent
    /\ CodeOf(c) \notin Sentinels
    /\ MsgOf(c) # Absent
    /\ IsStr(MsgOf(c))

\* the last line of a text that main.py cut at the character limit
TruncationNotice == "... (response truncated due to length limit)"

---------------------------------------------------------------------------
(* C9 *)

\* the envelopes of Scenario E
Deleted == Response(200, TRUE, Envelope(JStr("0"), JStr("success"), JNull), "")
NotFound == Response(200, TRUE, Envelope(JStr("-1"), JStr("not found"), JNull), "")

\* two calls of torna_delete_module with the same module_id, in Markdown
SameDelete(c, d) ==
    /\ c # d
    /\ variant = "main"
    /\ Finished(c)
    /\ Finished(d)
    /\ calls[c].tool = "torna_delete_module"
    /\ calls[d].tool = "torna_delete_module"
    /\ calls[c].arguments = calls[d].arguments
    /\ calls[c].params.response_format = "markdown"

\* C9: the string a call returns is determined by the call's own input and
\* the reply to its own POST: two finished calls of a tool with equal
\* arguments and equal replies return equal strings, whatever else the server
\* has done; and of two delete-module calls with the same module_id, the one
\* answered with code "0" returns a success report and the one answered with
\* code "-1" / "not found" returns a failure report with that code and msg.
C9_OwnInputAndReplyOnly ==
    \A c, d \in DOMAIN calls :
        /\ (/\ Finished(c)
            /\ Finished(d)
            /\ calls[c].tool = calls[d].tool
            /\ calls[c].arguments = calls[d].arguments
            /\ calls[c].reply = calls[d].reply) => calls[c].result = calls[d].result
        /\ (SameDelete(c, d) /\ calls[c].reply = Deleted /\ calls[d].reply = NotFound) =>
              /\ Contains(calls[c].result, SuccessLine)
              /\ ~Contains(calls[c].result, FailureLine)
              /\ Contains(calls[d].result, FailureLine)
              /\ Contains(calls[d].result, "- **Error Code**: -1")
              /\ Contains(calls[d].result, "- **Error Message**: not found")
              /\ ~Contains(calls[d].result, SuccessLine)

\* Scenario E has happened
C9_Witness ==
    \E c, d \in DOMAIN calls :
        /\ SameDelete(c, d)
        /\ calls[c].reply = Deleted
        /\ calls[d].reply = NotFound
        /\ calls[c].result # calls[d].result

---------------------------------------------------------------------------
(* C10 *)

\* C10: while the process serves calls, in any interleaving, the process-wide
\* configuration is never written.  It fails for the refactored server:
\* _validate_environment assigns API_BASE_URL and TORNA_TOKEN in every call.
C10_ConfigurationWrittenOnce == [][proc = "serving" => config' = config]_vars

---------------------------------------------------------------------------
(* C11 *)

\* the required configuration values are present and non-empty in the
\* environment of the process: TORNA_URL and TORNA_TOKENS for main.py,
\* TORNA_TOKEN for refactored_server.py
RequiredPresent ==
    IF variant = "main"
    THEN Truthy(getenv(environ, "TORNA_URL", JNull))
         /\ Truthy(getenv(environ, "TORNA_TOKENS", JNull))
    ELSE Truthy(getenv(environ, "TORNA_TOKEN", JNull))

\* C11: in both servers the process fails fast at start-up when a required
\* configuration value is absent or empty: it never comes to serve, and no
\* tool call is ever received.  It fails for the refactored server: main()
\* starts the server without looking at TORNA_TOKEN, and the tools are served.
C11_FailsFastAtStartup ==
    ~RequiredPresent =>
        /\ proc # "serving"
        /\ \A c \in DOMAIN calls : calls[c].pc = "idle"

---------------------------------------------------------------------------
(* C12 *)

\* call c is a create-category call that was sent the name ""
EmptyNameCategory(c) ==
    /\ calls[c].pc # "idle"
    /\ calls[c].tool = "torna_create_category"
    /\ calls[c].arguments.name = JStr("")

\* C12: create-category called with name "" is rejected by input validation
\* before any POST, in both servers: the tool function is never entered.
\* It fails for the refactored server: the name of DocCategoryCreateInput has
\* no minimum length, the call is accepted and the tool body runs.
C12_EmptyNameRejected ==
    \A c \in DOMAIN calls :
        EmptyNameCategory(c) =>
            /\ calls[c].pc = "rejected"
            /\ calls[c].raised = "ValidationError"
            /\ calls[c].posts = 0

---------------------------------------------------------------------------
(* C13 *)

\* the names of the fields the input model of a tool of main.py declares
Declared(tool) ==
    LET model == MainInputModel(tool) IN {model[i].name : i \in 1..Len(model)}

\* the arguments leave the bounds of the input model: a name that is empty
\* after stripping or longer than 100 characters, an http_method outside
\* GET/POST/PUT/DELETE/PATCH, a limit outside 1..100, a negative offset, or
\* doc_ids with fewer than 1 or more than 50 entries
OutOfBounds(tool, arguments) ==
    LET sent(f) == f \in Declared(tool) /\ arguments[f] \notin {Absent, JNull}
    IN  \/ /\ sent("name")
           /\ IsStr(arguments.name)
           /\ Len(Strip(arguments.name.s)) \notin 1..100
        \/ /\ sent("http_method")
           /\ arguments.http_method \notin {JStr(m) : m \in {"GET", "POST", "PUT", "DELETE", "PATCH"}}
        \/ /\ sent("limit")
           /\ arguments.limit.t = "int"
           /\ arguments.limit.n \notin 1..100
        \/ /\ sent("offset")
           /\ arguments.offset.t = "int"
           /\ arguments.offset.n < 0
        \/ /\ sent("doc_ids")
           /\ IsList(arguments.doc_ids)
           /\ Len(arguments.doc_ids.items) \notin 1..50

\* every required field of the tool is among the arguments: access_token for
\* every tool, and the name, url or id the tool is about
RequiredSent(tool, arguments) ==
    LET required ==
          {"access_token"}
          \cup (CASE tool = "torna_push_document" -> {"name", "url"}
                  [] tool \in {"torna_create_category", "torna_create_dictionary"} -> {"name"}
                  [] tool = "torna_update_category_name" -> {"category_id", "name"}
                  [] tool = "torna_get_document_detail" -> {"doc_id"}
                  [] tool = "torna_get_document_details_batch" -> {"doc_ids"}
                  [] tool \in {"torna_update_dictionary", "torna_get_dictionary_detail",
                               "torna_delete_dictionary"} -> {"dict_id"}
                  [] tool = "torna_create_module" -> {"name", "project_id"}
                  [] tool \in {"torna_update_module", "torna_get_module_detail",
                               "torna_delete_module"} -> {"module_id"}
                  [] OTHER -> {})
    IN  \A f \in required : arguments[f] \notin {Absent, JNull}

\* the response_format among the arguments, if any, is one the server knows
KnownFormat(arguments) ==
    arguments.response_format \in {Absent, JStr("markdown"), JStr("json")}

\* C13 as stated: in main.py a call whose arguments leave the bounds is
\* rejected before the tool body runs and before any POST, and every call
\* whose arguments are inside the bounds and name all required fields is
\* accepted.
C13_RejectedIffOutOfBounds ==
    \A c \in DOMAIN calls :
        (variant = "main" /\ calls[c].pc # "idle") =>
            /\ OutOfBounds(calls[c].tool, calls[c].arguments) =>
                    (calls[c].pc = "rejected" /\ calls[c].posts = 0)
            /\ (/\ ~OutOfBounds(calls[c].tool, calls[c].arguments)
                /\ RequiredSent(calls[c].tool, calls[c].arguments)) =>
                    calls[c].pc # "rejected"

\* C13 as amended: the bounds are taken of the stripped name, and a call
\* inside the bounds that names all required fields is accepted when its
\* response_format, if given, is "markdown" or "json"; it is rejected, with
\* no POST, when it is not.
C13_RejectedIffOutOfBoundsOrFormat ==
    \A c \in DOMAIN calls :
        (variant = "main" /\ calls[c].pc # "idle") =>
            /\ (\/ OutOfBounds(calls[c].tool, calls[c].arguments)
                \/ ~KnownFormat(calls[c].arguments)
                \/ ~RequiredSent(calls[c].tool, calls[c].arguments)) =>
                    (calls[c].pc = "rejected" /\ calls[c].posts = 0
                     /\ calls[c].raised = "ValidationError")
            /\ (/\ ~OutOfBounds(calls[c].tool, calls[c].arguments)
                /\ RequiredSent(calls[c].tool, calls[c].arguments)
                /\ KnownFormat(calls[c].arguments)) =>
                    calls[c].pc # "rejected"

\* a batch call with 51 document ids has been rejected
C13_Witness ==
    \E c \in DOMAIN calls :
        /\ variant = "main"
        /\ calls[c].tool = "torna_get_document_details_batch"
        /\ IsList(calls[c].arguments.doc_ids)
        /\ Len(calls[c].arguments.doc_ids.items) = 51
        /\ RequiredSent(calls[c].tool, calls[c].arguments)
        /\ calls[c].pc = "rejected"
        /\ calls[c].posts = 0

---------------------------------------------------------------------------
(* C14: the reader of the envelope, urllib.parse.unquote and json.loads *)

\* chr(code) for the codes of the payload texts
Chr(code) ==
    IF code = 9 THEN "\t"
    ELSE IF code = 10 THEN "\n"
    ELSE Char(" !\"#$%&'()*+,-./0123456789:;<=>?@ABCDEFGHIJKLMNOPQRSTUVWXYZ[\\]^_ abcdefghijklmnopqrstuvwxyz{|}~",
              code - 31)

\* int(xx, 16) of two hexadecimal digits
HexByte(xx) ==
    LET val(d) == (CHOOSE i \in 1..16 : Char("0123456789ABCDEF", i) = d) - 1
    IN  16 * val(Char(xx, 1)) + val(Char(xx, 2))

\* the text of a run of %XX escapes, its bytes read as UTF-8: one byte below
\* 128 is a character of its own, two bytes 110xxxxx 10xxxxxx are one
\* character ("$" stands for U+00E9)
Utf8(escapes) ==
    LET first == HexByte(SubSeq(escapes, 2, 3))
    IN  IF first < 128 THEN Chr(first)
        ELSE LET cp == (first - 192) * 64 + (HexByte(SubSeq(escapes, 5, 6)) - 128)
             IN  IF cp = 233 THEN "$" ELSE "?"

\* urllib.parse.unquote(s)
RECURSIVE Unquote(_)
Unquote(s) ==
    IF ~Contains(s, "%") THEN s
    ELSE IF Char(s, 1) = "%" /\ Len(s) = (IF HexByte(SubSeq(s, 2, 3)) < 128 THEN 3 ELSE 6)
    THEN Utf8(s)
    ELSE LET mid == Len(s) \div 2 + 1
             \* no escape is cut in two: step back to the % of the escape
             a == IF mid > 1 /\ Char(s, mid - 1) = "%" THEN mid - 1
                  ELSE IF mid > 2 /\ Char(s, mid - 2) = "%" THEN mid - 2
                  ELSE mid
             \* nor is a character of two bytes
             b == IF a > 3 /\ Char(s, a) = "%" /\ Char(s, a - 3) = "%"
                     /\ HexByte(SubSeq(s, a - 2, a - 1)) >= 128
                     /\ HexByte(SubSeq(s, a + 1, a + 2)) \in 128..191
                  THEN a - 3 ELSE a
             cut == IF b > 1 THEN b
                    ELSE IF HexByte(SubSeq(s, 2, 3)) < 128 THEN 4 ELSE 7
         IN  Unquote(SubSeq(s, 1, cut - 1)) \o Unquote(SubSeq(s, cut, Len(s)))

\* s[i-1 : i-1+n]: the n characters from position i on, or those there are
Take(s, i, n) == SubSeq(s, i, IF i + n - 1 < Len(s) THEN i + n - 1 ELSE Len(s))

\* the length of the run of backslashes that ends at position j
RECURSIVE BackslashRun(_, _)
BackslashRun(s, j) ==
    IF j >= 1 /\ Char(s, j) = "\\" THEN 1 + BackslashRun(s, j - 1) ELSE 0

\* the first position of lo..hi that holds a backslash (what = "\\") or the
\* quote that closes a string (what = "\""); 0 when there is none
RECURSIVE FirstIn(_, _, _, _)
FirstIn(s, lo, hi, what) ==
    LET hit(j) == /\ Char(s, j) = what
                  /\ (what = "\"" => BackslashRun(s, j - 1) % 2 = 0)
        mid == (lo + hi) \div 2
    IN  IF hi - lo < 16
        THEN IF \E j \in lo..hi : hit(j)
             THEN CHOOSE j \in lo..hi : hit(j) /\ \A k \in lo..(j - 1) : ~hit(k)
             ELSE 0
        ELSE IF FirstIn(s, lo, mid, what) # 0 THEN FirstIn(s, lo, mid, what)
        ELSE FirstIn(s, mid + 1, hi, what)

\* the same from lo to the end of s
FirstOf(s, lo, what) == FirstIn(s, lo, Len(s), what)

\* the text a JSON string literal stands for, given what is between its quotes
RECURSIVE JsonUnescape(_)
JsonUnescape(s) ==
    LET b == FirstOf(s, 1, "\\")
    IN  IF b = 0 THEN s
        ELSE LET e == Take(s, b + 1, 1)
                 width == IF e = "u" THEN 6 ELSE 2
                 char == CASE e = "n" -> "\n"
                           [] e = "t" -> "\t"
                           [] e = "u" -> IF Take(s, b + 2, 4) = "00e9" THEN "$" ELSE "?"
                           [] OTHER -> e
             IN  SubSeq(s, 1, b - 1) \o char \o JsonUnescape(SubSeq(s, b + width, Len(s)))

\* the first position from i on that holds no blank
RECURSIVE SkipBlanks(_, _)
SkipBlanks(s, i) ==
    IF i <= Len(s) /\ Char(s, i) \in {" ", "\n", "\t"} THEN SkipBlanks(s, i + 1) ELSE i

\* the position after the digits that start at i
RECURSIVE SkipDigits(_, _)
SkipDigits(s, i) ==
    IF i <= Len(s) /\ Contains("0123456789", Char(s, i)) THEN SkipDigits(s, i + 1) ELSE i

\* int(s) of a text of digits
RECURSIVE ParseNat(_)
ParseNat(s) ==
    IF s = "" THEN 0
    ELSE 10 * ParseNat(SubSeq(s, 1, Len(s) - 1))
         + (CHOOSE d \in 0..9 : Char("0123456789", d + 1) = Char(s, Len(s)))

\* the JSON value that starts at position i of s, and the position after it;
\* Absent when the text at i is no JSON value
RECURSIVE ParseValue(_, _)
RECURSIVE ParseItems(_, _, _, _)
ParseItems(s, i, isObj, acc) ==
    LET bad == [v |-> Absent, n |-> Len(s) + 1]
        k == IF isObj THEN ParseValue(s, i) ELSE [v |-> JNull, n |-> i]
        colon == SkipBlanks(s, k.n)
        e == IF isObj THEN ParseValue(s, colon + 1) ELSE ParseValue(s, i)
        j == SkipBlanks(s, e.n)
        item == IF isObj THEN <<k.v.s, e.v>> ELSE e.v
    IN  IF isObj /\ (~IsStr(k.v) \/ colon > Len(s) \/ Char(s, colon) # ":") THEN bad
        ELSE IF e.v = Absent \/ j > Len(s) THEN bad
        ELSE IF Char(s, j) = "," THEN ParseItems(s, j + 1, isObj, Append(acc, item))
        ELSE IF Char(s, j) = (IF isObj THEN "}" ELSE "]")
        THEN [v |-> IF isObj THEN JObj(Append(acc, item)) ELSE JList(Append(acc, item)),
              n |-> j + 1]
        ELSE bad

ParseValue(s, i0) ==
    LET i == SkipBlanks(s, i0)
        bad == [v |-> Absent, n |-> Len(s) + 1]
        c == Char(s, i)
    IN  IF i > Len(s) THEN bad
        ELSE IF c \in {"{", "["}
        THEN LET j == SkipBlanks(s, i + 1)
             IN  IF j <= Len(s) /\ Char(s, j) = (IF c = "{" THEN "}" ELSE "]")
                 THEN [v |-> IF c = "{" THEN JObj(<<>>) ELSE JList(<<>>), n |-> j + 1]
                 ELSE ParseItems(s, j, c = "{", <<>>)
        ELSE IF c = "\""
        THEN LET end == FirstOf(s, i + 1, "\"")
             IN  IF end = 0 THEN bad
                 ELSE [v |-> JStr(JsonUnescape(SubSeq(s, i + 1, end - 1))), n |-> end + 1]
        ELSE IF Take(s, i, 4) = "null" THEN [v |-> JNull, n |-> i + 4]
        ELSE IF Take(s, i, 4) = "true" THEN [v |-> JBool(TRUE), n |-> i + 4]
        ELSE IF Take(s, i, 5) = "false" THEN [v |-> JBool(FALSE), n |-> i + 5]
        ELSE LET from == IF c = "-" THEN i + 1 ELSE i
                 to == SkipDigits(s, from)
             IN  IF to = from THEN bad
                 ELSE [v |-> JInt((IF c = "-" THEN -1 ELSE 1)
                                  * ParseNat(SubSeq(s, from, to - 1))),
                       n |-> to]

\* json.loads(s): Absent when s is no JSON document
JsonParse(s) ==
    LET r == ParseValue(s, 1)
    IN  IF r.v # Absent /\ SkipBlanks(s, r.n) = Len(s) + 1 THEN r.v ELSE Absent

\* what the reader of the envelope recovers from its data field
Recovered(data) == JsonParse(Unquote(data))

\* C14: percent-decoding the data field of the request envelope and parsing
\* the result as JSON yields exactly the payload given to the formatter: the
\* dict main.py's tool hands to _make_api_request, and the dict the request
\* class of refactored_client hands to json.dumps in build_json_data, whose
\* url-encoded text is the data field of the form.
C14_DataRoundTrip ==
    \A c \in DOMAIN calls :
        LET call == calls[c]
            request == RefactoredRequest(call.tool, call.params, TORNA_TOKEN)
            data == url_encode(build_json_data(request))
        IN  /\ variant = "main" /\ call.pc = "awaiting" =>
                   Recovered(Lookup(call.sent, "data").s)
                       = MainPayload(call.tool, call.params)
            /\ variant = "refactored" /\ call.pc \in {"envok", "awaiting"} =>
                   /\ Recovered(data) = JsonData(request).v
                   /\ call.pc = "awaiting" => Lookup(call.sent, "data") = JStr(data)

\* a pushed document whose name has a character outside ASCII, a quote or a
\* backslash: the data field carries it percent-encoded
C14_Witness ==
    \E c \in DOMAIN calls :
        /\ calls[c].pc = "awaiting"
        /\ calls[c].tool = "torna_push_document"
        /\ Contains(Lookup(calls[c].sent, "data").s, "%C3%A9")
        /\ Recovered(Lookup(calls[c].sent, "data").s) # Absent

---------------------------------------------------------------------------
(* C15: optional fields the caller left absent *)

\* the optional fields of a tool's input, each with the key its formatter
\* writes it under
OptionalKeys(tool) ==
    CASE tool = "torna_push_document" ->
            { <<"description", "description">>, <<"parent_id", "parentId">>,
              <<"request_params", "requestParams">>,
              <<"header_params", "headerParams">>,
              <<"response_params", "responseParams">>,
              <<"error_codes", "errorCodeParams">> }
      [] tool = "torna_create_category" ->
            { <<"description", "description">>, <<"parent_id", "parentId">> }
      [] tool \in {"torna_create_dictionary", "torna_create_module"} ->
            { <<"description", "description">> }
      [] tool \in {"torna_update_dictionary", "torna_update_module"} ->
            { <<"name", "name">>, <<"description", "description">> }
      [] OTHER -> {}

\* the dict a call's formatter has filled from the validated input: the
\* document of a doc.push, the payload itself of every other operation
Formatted(c) ==
    LET call == calls[c]
    IN  IF call.tool = "torna_push_document"
        THEN IF variant = "main"
             THEN Lookup(format_doc_push_data(call.params), "apis").items[1]
             ELSE format_doc_push_data_refactored(call.params).items[1]
        ELSE MainPayload(call.tool, call.params)

\* a call whose formatter has run: every tool of main.py, and the
\* push-document tool of refactored_server
Formats(c) ==
    /\ calls[c].pc = "awaiting"
    /\ variant = "main" \/ calls[c].tool = "torna_push_document"

\* C15: the formatted payload has no key for an optional field the caller
\* left absent (a doc.push built without description and parent_id carries
\* neither description nor parentId), in main.py's formatters and in
\* refactored_server's _format_doc_push_data_refactored.
C15_NoKeyForAbsentOptional ==
    \A c \in DOMAIN calls :
        Formats(c) =>
            \A fk \in OptionalKeys(calls[c].tool) :
                calls[c].arguments[fk[1]] = Absent => ~HasKey(Formatted(c), fk[2])

---------------------------------------------------------------------------
(* C16: the debug environment of a pushed document *)

\* the validated input of the call names a debug environment in full
BothGiven(c) ==
    /\ Truthy(calls[c].params.debug_env_name)
    /\ Truthy(calls[c].params.debug_env_url)

\* the payload of a posted doc.push, as its reader recovers it
PushedPayload(c) == Recovered(Lookup(calls[c].sent, "data").s)

\* the lists a DocPushRequest may hold: never set, set empty, set non-empty
PushLists(c) ==
    {JNull, JList(<<>>), JList(<< JObj(<< <<"name", JStr("dev $")>> >>) >>),
     format_doc_push_data_refactored(calls[c].params)}

\* C16: a push-document payload has a debug-environment entry iff both
\* debug_env_name and debug_env_url of the input model are present and
\* non-empty, and the entry is that name and url; with only one
\* of them it has no debug-environment key (debugEnv in main.py, debugEnvs in
\* the refactored variant) and the call is not rejected. In refactored_client,
\* DocPushRequest.build_json_data emits apis / debugEnvs exactly when the
\* list has been set non-empty, and emits the list unchanged.
C16_DebugEnvIffBoth ==
    \A c \in DOMAIN calls :
        LET call == calls[c]
            name == call.arguments.debug_env_name
            url == call.arguments.debug_env_url
            env == JObj(<< <<"name", call.params.debug_env_name>>,
                           <<"url", call.params.debug_env_url>> >>)
            doc == Lookup(PushedPayload(c), "apis").items[1]
            rest == [call.arguments EXCEPT !.debug_env_name = Absent,
                                           !.debug_env_url = Absent]
            bare == IF variant = "main"
                    THEN Validate(MainInputModel(call.tool), rest, TRUE)
                    ELSE Validate(RefactoredInputModel(call.tool), rest, FALSE)
        IN  call.tool = "torna_push_document" =>
              /\ (Truthy(name) /\ IsStr(name)) # (Truthy(url) /\ IsStr(url))
                 /\ bare.ok
                 => call.pc # "rejected"
              /\ call.pc = "awaiting" /\ variant = "main" =>
                    /\ HasKey(doc, "debugEnv") <=> BothGiven(c)
                    /\ BothGiven(c) => Lookup(doc, "debugEnv") = env
                    /\ ~HasKey(PushedPayload(c), "debugEnvs")
              /\ call.pc = "awaiting" /\ variant = "refactored" =>
                    /\ HasKey(PushedPayload(c), "debugEnvs") <=> BothGiven(c)
                    /\ BothGiven(c) =>
                           Lookup(PushedPayload(c), "debugEnvs") = JList(<<env>>)
                    /\ ~HasKey(doc, "debugEnv")
                    /\ \A apis \in PushLists(c), debug_envs \in PushLists(c) :
                          LET request == set_debug_envs(
                                  set_apis(DocPushRequest(TORNA_TOKEN), apis), debug_envs)
                              built == JsonParse(build_json_data(request))
                          IN  /\ HasKey(built, "apis") <=> Truthy(apis)
                              /\ HasKey(built, "debugEnvs") <=> Truthy(debug_envs)
                              /\ Truthy(apis) => Lookup(built, "apis") = apis
                              /\ Truthy(debug_envs) =>
                                     Lookup(built, "debugEnvs") = debug_envs

\* a document pushed with only one of the two fields, and one pushed with
\* both: the first goes out without a debug environment, the second with it
C16_Witness ==
    \E c \in DOMAIN calls :
        /\ calls[c].tool = "torna_push_document"
        /\ calls[c].pc = "awaiting"
        /\ Truthy(calls[c].params.debug_env_url)
        /\ ~Truthy(calls[c].params.debug_env_name)
        /\ calls[c].arguments.debug_env_name # Absent
        /\ ~Contains(Lookup(calls[c].sent, "data").s, "debugEnv")

---------------------------------------------------------------------------
(* C17: the payload of the rename-category tool *)

\* the payload names the category by the caller's category_id and carries
\* the new name
Renames(payload, params) ==
    /\ Get(payload, "id", Absent) = params.category_id
    /\ Get(payload, "name", Absent) = params.name

\* C17: the payload torna_update_category_name sends to interface
\* doc.category.name.update has the caller's category_id under key id and the
\* new name under key name, in main.py's tool and in the payload
\* refactored_client's DocCategoryNameUpdateRequest builds.
C17_RenameNamesTheCategory ==
    \A c \in DOMAIN calls :
        LET call == calls[c]
        IN  call.tool = "torna_update_category_name" =>
              /\ variant = "main" /\ call.pc = "awaiting" =>
                    /\ Lookup(call.sent, "name") = JStr("doc.category.name.update")
                    /\ Renames(Recovered(Lookup(call.sent, "data").s), call.params)
              /\ variant = "refactored" /\ call.pc = "envok" =>
                    Renames(Recovered(url_encode(build_json_data(
                                RefactoredRequest(call.tool, call.params, TORNA_TOKEN)))),
                            call.params)

---------------------------------------------------------------------------
(* C18, C19: the character budget of a rendered response *)

\* call c has returned what the response renderer made of its envelope
Rendered(c) ==
    /\ Finished(c)
    /\ Enveloped(c)
    /\ calls[c].raised = ""
    /\ variant = "refactored" => CodeOf(c) = JStr("0")

\* C18: every string a response renderer returns is at most CHARACTER_LIMIT
\* (25000) characters long, for every envelope and in both output formats,
\* in main.py's _format_response and in refactored_server's _format_response.
C18_WithinCharacterLimit ==
    \A c \in DOMAIN calls :
        Rendered(c) => Len(calls[c].result) <= CHARACTER_LIMIT

\* call c of main.py has returned a Markdown rendering of its envelope
RenderedMarkdown(c) ==
    /\ Rendered(c)
    /\ variant = "main"
    /\ calls[c].params.response_format # "json"
    /\ response_text(calls[c].reply.v, MainInterface(calls[c].tool)).ok

\* the full Markdown rendering of the envelope of call c
FullText(c) == response_text(calls[c].reply.v, MainInterface(calls[c].tool)).v

\* the marker that ends a truncated text
Marker == "\n\n" \o TruncationNotice

\* the characters of the returned text before the marker
Kept(c) == Len(calls[c].result) - Len(Marker)

\* C19: in main.py's Markdown rendering, a full text over the character
\* budget is returned as a prefix of itself followed by exactly one truncation
\* marker, the cut falling at the end of a rendered line and never inside
\* one; a full text within the budget is returned unchanged, without marker.
C19_CutBetweenLines ==
    \A c \in DOMAIN calls :
        RenderedMarkdown(c) =>
            IF Len(FullText(c)) > CHARACTER_LIMIT
            THEN /\ Kept(c) >= 0
                 /\ calls[c].result = SubSeq(FullText(c), 1, Kept(c)) \o Marker
                 /\ ~Contains(SubSeq(FullText(c), 1, Kept(c)), TruncationNotice)
                 /\ \/ Kept(c) = 0
                    \/ Char(FullText(c), Kept(c)) = "\n"
                    \/ Char(FullText(c), Kept(c) + 1) = "\n"
            ELSE calls[c].result = FullText(c)

---------------------------------------------------------------------------
(* C20: the JSON output mode *)

\* the envelope that answered call c can be read back from the document
EnvelopeIn(document, c) ==
    /\ IsObj(document)
    /\ \A k \in {"code", "msg", "data"} :
           Get(document, k, Absent) = Get(calls[c].reply.v, k, Absent)

\* C20: in JSON output mode the returned string is a pretty-printed JSON
\* document that holds the full Response Envelope: parsing it gives back the
\* envelope's code, msg and data, in main.py's _format_response and in
\* refactored_server's _format_response.
C20_JsonModeHoldsEnvelope ==
    \A c \in DOMAIN calls :
        Finished(c) /\ Enveloped(c) /\ calls[c].raised = ""
            /\ calls[c].params.response_format = "json"
        => /\ EnvelopeIn(JsonParse(calls[c].result), c)
           /\ calls[c].result = JsonDumpsIndent(JsonParse(calls[c].result))

---------------------------------------------------------------------------
(* C21: the Markdown of a document list *)

\* the first position of p in s; 0 when p is not in s
IndexOf(s, p) ==
    IF Contains(s, p)
    THEN 1 + CHOOSE i \in 0..(Len(s) - Len(p)) :
                /\ SubSeq(s, i + 1, i + Len(p)) = p
                /\ \A j \in 0..(i - 1) : SubSeq(s, j + 1, j + Len(p)) # p
    ELSE 0

\* call c of main.py listed documents in Markdown mode and was answered with
\* the success sentinel and a data of the shape {total, list}, every listed
\* document a mapping with a name
ListedDocuments(c) ==
    /\ variant = "main"
    /\ Finished(c)
    /\ Enveloped(c)
    /\ calls[c].tool = "torna_list_documents"
    /\ calls[c].params.response_format # "json"
    /\ CodeOf(c) \in Sentinels
    /\ LET data == Get(calls[c].reply.v, "data", JNull)
       IN  /\ IsObj(data)
           /\ HasKey(data, "total")
           /\ IsList(Get(data, "list", JNull))
           /\ \A i \in 1..Len(Lookup(data, "list").items) :
                  /\ IsObj(Lookup(data, "list").items[i])
                  /\ IsStr(Get(Lookup(data, "list").items[i], "name", JNull))

\* the documents of the list that answered call c
Listed(c) == Lookup(Lookup(calls[c].reply.v, "data"), "list").items

\* the heading of the i-th listed document
Heading(c, i) == "\n### " \o Lookup(Listed(c)[i], "name").s \o "\n"

---------------------------------------------------------------------------
(* C22: the generic Markdown of an operation without a template *)

\* the operations of main.py that _format_response has no branch for
Untemplated(tool) ==
    \/ StartsWith(MainInterface(tool), "dict.")
    \/ StartsWith(MainInterface(tool), "module.")

\* call c was answered with the success sentinel and a mapping as data, and
\* returned Markdown: a tool of main.py without a template, or any tool of
\* the refactored server, which renders every operation generically
GenericallyRendered(c) ==
    /\ Finished(c)
    /\ Enveloped(c)
    /\ calls[c].raised = ""
    /\ calls[c].params.response_format # "json"
    /\ IF variant = "main"
       THEN calls[c].tool \in MainTools /\ Untemplated(calls[c].tool)
            /\ CodeOf(c) \in Sentinels
       ELSE CodeOf(c) = JStr("0")
    /\ IsObj(Get(calls[c].reply.v, "data", JNull))

\* C22: in Markdown mode a successful response of an operation without a
\* template of its own (dict.* and module.* in main.py) is rendered as a flat
\* key/value listing of data: every top-level key of data appears in the
\* returned text, and with it its value.
C22_GenericListing ==
    \A c \in DOMAIN calls :
        GenericallyRendered(c) =>
            LET members == Lookup(calls[c].reply.v, "data").members
            IN  \A i \in 1..Len(members) :
                    /\ Contains(calls[c].result, members[i][1])
                    /\ members[i][2].t \in {"str", "int", "bool", "null"} =>
                           Contains(calls[c].result, PyStr(members[i][2]))

---------------------------------------------------------------------------
(* C23: the error classifier *)

\* the eight categories of failure messages, by number: configuration error,
\* 404, 403, 429, other status, timeout, parse error, unexpected error
InCategory(k, text) ==
    CASE k = 1 -> StartsWith(text, "Configuration error: ")
      [] k = 2 -> text = "Error: Resource not found. Please check the ID is correct."
      [] k = 3 -> text = "Error: Permission denied. You don't have access to this resource."
      [] k = 4 -> text = "Error: Rate limit exceeded. Please wait before making more requests."
      [] k = 5 -> StartsWith(text, "Error: API request failed with status ")
      [] k = 6 -> text = "Error: Request timed out. Please try again."
      [] k = 7 -> StartsWith(text, "Torna API Error PARSE_ERROR: ")
      [] k = 8 -> /\ StartsWith(text, "Error: Unexpected error occurred: ")
                  /\ Len(text) > Len("Error: Unexpected error occurred: ")

\* the tool of call c caught an exception and returned what the classifier
\* made of it
Classified(c) ==
    /\ Finished(c)
    /\ calls[c].raised = ""
    /\ IF variant = "main"
       THEN \/ ~make_api_request_result(calls[c].reply).ok
            \/ ~format_response(make_api_request_result(calls[c].reply).v,
                                calls[c].params.response_format,
                                MainInterface(calls[c].tool)).ok
       ELSE \/ calls[c].reply.k = "none"
            \/ ~execute_exchange(RefactoredRequest(calls[c].tool, calls[c].params,
                                                   TORNA_TOKEN), calls[c].reply).ok

\* C23: error classification is total: every failure is put into exactly one
\* of the eight categories (configuration error, 404, 403, 429, other
\* non-2xx status, timeout, parse error, unexpected error naming the class of
\* the failure), the classifier never raises, and a failure that carries an
\* HTTP status is classified by that status before anything else; in
\* main.py's _handle_api_error and refactored_server's
\* _handle_api_error_refactored.
C23_ClassifierTotal ==
    \A c \in DOMAIN calls :
        Classified(c) =>
            /\ Cardinality({k \in 1..8 : InCategory(k, calls[c].result)}) = 1
            /\ (calls[c].reply.k = "response" /\ calls[c].reply.status \div 100 # 2)
                   => calls[c].result = StatusMessage(calls[c].reply)

---------------------------------------------------------------------------
(* C24: a reply that is no envelope *)

\* the POST of call c was answered 2xx with a body that is not JSON, or is
\* JSON but no mapping
Unparseable(c) ==
    /\ calls[c].reply.k = "response"
    /\ calls[c].reply.status \div 100 = 2
    /\ ~calls[c].reply.json \/ ~IsObj(calls[c].reply.v)

\* a message of the parse-error category: it speaks of parsing and is neither
\* of the two generic texts for an unexpected failure
ParseErrorMessage(text) ==
    /\ Contains(text, "PARSE_ERROR") \/ Contains(Lower(text), "pars")
    /\ ~StartsWith(text, "Error: Unexpected error occurred")
    /\ ~StartsWith(text, "Torna API Error UNKNOWN_ERROR")

\* C24: when the reply is 2xx but its body cannot be parsed as the JSON
\* envelope (not JSON at all, or JSON that is no mapping), the tool returns
\* a parse-error message that names the cause, a category apart from the
\* generic unexpected-error message; in main.py and in refactored_server.py.
C24_ParseErrorReported ==
    \A c \in DOMAIN calls :
        Finished(c) /\ Unparseable(c) =>
            /\ calls[c].raised = ""
            /\ ParseErrorMessage(calls[c].result)

---------------------------------------------------------------------------
(* C25: the declared side effects of the tools *)

\* the catalog: the list, get and batch-get operations only read, the delete
\* operations destroy
Catalog(tool) ==
    [readOnlyHint |-> Contains(tool, "_list_") \/ Contains(tool, "_get_"),
     destructiveHint |-> Contains(tool, "_delete_")]

\* C25: every tool registered in main.py declares what the catalog says:
\* readOnlyHint is true exactly for the list / get / batch-get operations,
\* destructiveHint exactly for the delete operations (dictionary delete,
\* module delete).
C25_AnnotationsMatchCatalog ==
    variant = "main" /\ proc = "serving" =>
        /\ \A tool \in MainTools : Annotations(tool) = Catalog(tool)
        /\ \A c \in DOMAIN calls :
               calls[c].pc # "idle" => Annotations(calls[c].tool) = Catalog(calls[c].tool)
        /\ {tool \in MainTools : Annotations(tool).destructiveHint}
               = {"torna_delete_dictionary", "torna_delete_module"}

\* the delete-module tool, declared destructive, has posted
C25_Witness ==
    \E c \in DOMAIN calls :
        /\ variant = "main"
        /\ calls[c].tool = "torna_delete_module"
        /\ calls[c].posts = 1
        /\ Annotations(calls[c].tool).destructiveHint
        /\ ~Annotations(calls[c].tool).readOnlyHint

---------------------------------------------------------------------------
(* C26: RequestForm keeps its own dict *)

\* what request_form.get_form() returns now
FormNow == get_form([form |-> heap[locals.request_form.form]])

\* C26: get_form() returns a dictionary equal to the one given at
\* construction but a distinct object, and neither adding, removing or
\* replacing keys on the dictionary passed to the constructor nor on a
\* dictionary returned by get_form() changes what later get_form() calls return.
C26_RequestFormIsolated ==
    locals.request_form # Absent =>
        /\ FormNow = locals.given
        /\ locals.request_form.form # locals.form_data
        /\ \A r \in locals.got : r \notin {locals.form_data, locals.request_form.form}

\* the caller has changed the dict it built the form from and a dict
\* get_form() returned
C26_Witness ==
    /\ locals.request_form # Absent
    /\ heap[locals.form_data] # locals.given
    /\ \E r \in locals.got : heap[r] # locals.given
    /\ locals.given # JObj(<<>>)

---------------------------------------------------------------------------
(* C27: what TornaClient.execute returns or raises *)

\* the code the failure class of the last execute call asks for, "" for none
CodeAskedFor ==
    LET o == locals.outcome
    IN  IF o.transport # "open" THEN "CLIENT_ERROR"
        ELSE IF o.reply.k = "timeout" THEN "TIMEOUT_ERROR"
        ELSE IF o.reply.k = "response" /\ o.reply.status \div 100 # 2 THEN "HTTP_ERROR"
        ELSE IF o.reply.k = "response" /\ (~o.reply.json \/ ~IsObj(o.reply.v))
        THEN "PARSE_ERROR"
        ELSE ""

\* C27: TornaClient.execute either returns a parsed response or raises
\* TornaAPIError and nothing else, and the error's code identifies the failure
\* class: CLIENT_ERROR when no transport is open, HTTP_ERROR when the reply
\* status is non-2xx, TIMEOUT_ERROR when the request timed out, PARSE_ERROR
\* when the reply body is not a parseable JSON envelope, and UNKNOWN_ERROR only
\* for failures that are none of these.
C27_ExecuteErrorCodes ==
    locals.outcome # Absent =>
        LET o == locals.outcome
        IN  \/ o.r.ok /\ CodeAskedFor = ""
            \/ /\ ~o.r.ok
               /\ o.r.exc.cls = "TornaAPIError"
               /\ o.r.exc.code = (IF CodeAskedFor = "" THEN "UNKNOWN_ERROR" ELSE CodeAskedFor)

---------------------------------------------------------------------------
(* C28: the transport of a TornaClient and the with statement *)

\* C28: for every sequence of __enter__, execute and __exit__ calls on a
\* TornaClient: the transport is absent before the first __enter__ and open
\* inside the with-scope; an HTTP POST is attempted only between an __enter__
\* and its matching __exit__; execute called before __enter__ or after
\* __exit__ raises TornaAPIError with code CLIENT_ERROR without attempting a
\* POST; and __exit__ closes the transport opened by __enter__ on every exit
\* from the scope, including when the body raised.
C28_TransportFollowsScope ==
    torna_client # Absent =>
        /\ transports = <<>> => torna_client.client = 0
        /\ locals.scopes > 0 =>
               torna_client.client # 0 /\ transports[torna_client.client] = "open"
        /\ locals.scopes = 0 => \A i \in 1..Len(transports) : transports[i] = "closed"
        /\ locals.outcome # Absent =>
               /\ locals.outcome.posted => locals.outcome.scopes > 0
               /\ locals.outcome.scopes = 0 =>
                      /\ ~locals.outcome.posted
                      /\ ~locals.outcome.r.ok
                      /\ locals.outcome.r.exc.cls = "TornaAPIError"
                      /\ locals.outcome.r.exc.code = "CLIENT_ERROR"

---------------------------------------------------------------------------
(* C30: the base URL a TornaClient stores *)

\* the number of places at which p occurs in s
Occurrences(s, p) ==
    Cardinality({ i \in 1..Len(s) : Take(s, i, Len(p)) = p })

\* C30: for every input URL the stored base_url has no trailing '/' and
\* either ends with '/api' or contains '/api/'; a URL that already ends with
\* '/api' (with or without trailing slashes) or already contains an '/api/'
\* path segment gets no second '/api' appended, every other URL gets exactly
\* one '/api' appended; and normalising an already normalised base_url leaves
\* it unchanged.
C30_BaseUrlNormalised ==
    torna_client # Absent =>
        LET given == locals.base_url
            stripped == RStripSlash(given)
            stored == torna_client.base_url
        IN  /\ ~EndsWith(stored, "/")
            /\ EndsWith(stored, "/api") \/ Contains(stored, "/api/")
            /\ IF EndsWith(stripped, "/api") \/ Contains(given, "/api/")
               THEN stored = stripped
               ELSE stored = stripped \o "/api"
            /\ Occurrences(stored, "/api") =
                   Occurrences(stripped, "/api")
                   + (IF EndsWith(stripped, "/api") \/ Contains(given, "/api/") THEN 0 ELSE 1)
            /\ ClientBaseUrl(stored) = stored

\* a client built from a URL with an '/api/' segment inside and a trailing
\* slash has executed a request
C30_Witness ==
    /\ torna_client # Absent
    /\ locals.base_url = "http://torna/api/v1/"
    /\ torna_client.base_url = "http://torna/api/v1"
    /\ locals.outcome # Absent

---------------------------------------------------------------------------
(* C29: a success envelope is rendered as a success *)

\* call c of main.py, asked for Markdown, was answered with an envelope whose
\* code is the success sentinel
AnsweredSuccess(c) ==
    /\ variant = "main"
    /\ Finished(c)
    /\ Enveloped(c)
    /\ CodeOf(c) \in Sentinels
    /\ calls[c].params.response_format = "markdown"
    /\ LET data == Get(calls[c].reply.v, "data", Absent)
       IN  data \in {Absent, JNull} \/ IsObj(data) \/ IsList(data)

\* C29: in main.py's Markdown rendering every envelope whose code is the
\* success sentinel is rendered as a success report, for every operation name
\* and every shape of data (absent, null, empty or non-empty mapping, empty or
\* non-empty list): _format_response returns a text containing the success
\* line and does not raise, so the tool reports no error.
C29_SuccessAlwaysRendered ==
    \A c \in DOMAIN calls :
        AnsweredSuccess(c) =>
            /\ format_response(calls[c].reply.v, calls[c].params.response_format,
                               MainInterface(calls[c].tool)).ok
            /\ calls[c].raised = ""
            /\ Contains(calls[c].result, SuccessLine)
            /\ ~StartsWith(calls[c].result, "Error")

====
